---- MODULE Spec2Model ----
(***************************************************************************)
(* Control plane of the DeepSeek-OCR pipeline of V-prajit/relay:           *)
(*   backend/app/services/deepseek_service.py  LaptopDeepSeekOCR           *)
(*   backend/app/services/ocr_fallback.py      HybridOCR                   *)
(*   backend/app/services/compressor.py        AdaptiveCompressor          *)
(*   backend/app/services/encoder.py           LaptopDeepEncoder           *)
(*   backend/app/services/model_loader.py      OptimizedModelLoader        *)
(*   backend/app/routes/deepseek.py            the /ocr/* request handlers *)
(* One call is in flight at a time: pc is the position of that call.       *)
(* Python's None is the string "None".                                     *)
(***************************************************************************)
EXTENDS Integers, Sequences, FiniteSets, TLC

VARIABLES
    \* deepseek_service.py: module global _deepseek_instance (0 = None, else
    \* the identity of the LaptopDeepSeekOCR object)
    deepseek_instance,
    \* routes/deepseek.py: module global deepseek_service (0 = None)
    deepseek_service,
    \* LaptopDeepSeekOCR fields
    initialized, model, model_loader, loader_model, encoder, decoder,
    \* LaptopDeepEncoder.current_mode
    current_mode,
    \* HybridOCR fields of self.fallback
    deepseek_available, paddle, enable_tesseract,
    \* the call in flight
    pc,            \* position of the running call, "idle" between calls
    req,           \* the file of the running / last process_file call
    mode,          \* local variable mode of process_file
    stream,        \* local variable stream of _process_with_deepseek
    page_num,      \* index of the page the page loop is at
    all_text,      \* all_text of _process_with_deepseek: the decoded pages
    guarded,       \* the primary attempt runs inside process_file's try
    ratio_info,    \* ratio_info of _process_with_deepseek: the last page's ratio
    ret_to,        \* which call site of fallback.process_document is running
    force_engine,  \* argument force_engine of process_document
    service_arg,   \* process_document was given a deepseek_service handle
    engine,        \* local variable engine of process_document
    tried,         \* the engines invoked by the running router call, in order
    result,        \* what the last call returned or raised
    \* history of the run (not program state)
    lifecycle,        \* the controller's lifecycle state as the spec names it
    load_attempts,    \* calls of load_model made by the running initialize
    primary_invoked,  \* primary components invoked by the running process_file
    unsafe_seen,      \* a page of the running process_file had ratio > 10.0
    primary_exc,      \* the exception the primary pipeline raised, or "None"
    retired,          \* controllers on which the cleanup route has run
    cleanups,         \* calls of cleanup() since the last initialize
    \* application of a pure function to drawn arguments
    call, ret,
    \* the request handlers as coroutines of one event loop
    h_pc,          \* position of each handler
    h_loc,         \* locals of the handler's process_file call
    running,       \* the handler that runs on the loop's thread, 0 = none
    \* generators, driven by their consumer
    dgen,          \* the generator a decode_streaming call returned
    rgen,          \* the generator a render_pdf_streaming call returned
    \* an OptimizedModelLoader used on its own
    ldr

glob == <<deepseek_instance, deepseek_service>>
ctrl == <<initialized, model, model_loader, loader_model, encoder, decoder, current_mode>>
fbv == <<deepseek_available, paddle, enable_tesseract>>
reqv == <<req, mode, stream, page_num, all_text, guarded, ratio_info>>
rtv == <<ret_to, force_engine, service_arg, engine, tried>>
hist == <<lifecycle, load_attempts, primary_invoked, unsafe_seen, primary_exc, retired, cleanups>>
fnv == <<call, ret>>
loopv == <<h_pc, h_loc, running>>
genv == <<dgen, rgen, ldr>>
vars == <<glob, ctrl, fbv, pc, reqv, rtv, result, hist, fnv, loopv, genv>>

None == "None"

\* ---------------------------------------------------------------- bounds
\* pages of the longest PDF
MaxPages == 2
\* free accelerator memory drawn for auto_select_mode ranges over 0..MaxFreeGB
MaxFreeGB == 9
\* cleanup() is called at most this many times between two initialize calls
MaxCleanups == 2
\* request handlers in flight on the event loop
MaxCallers == 2
\* images of the longest list given to encode_with_chunking
MaxImages == 2
\* units generated for one page by decode_streaming
MaxUnits == 201
\* nesting depth of "with MemoryGuard():"
MaxGuards == 2
\* calls made on one OptimizedModelLoader
MaxLoaderOps == 4
MaxTextLen == 2

\* ------------------------------------------------------ program constants
\* process_file: file_size_mb > 10 takes the streaming path
StreamThresholdMB == 10
\* monitor_compression_ratio: 'safe': ratio <= 10.0, warning if ratio > 10.0
UnsafeRatio == 10
\* estimate_document_complexity: 500 tokens per PDF page
TokensPerPage == 500
\* decode_streaming: the cache is cleared every 100 generated tokens
CacheClearEvery == 100
\* _resize_to_target: the largest target width that is resized without padding
ResizeDirectMax == 640
AsciiLimit == 128

Modes == {"tiny", "small", "base"}
Callers == 1..MaxCallers
Engines == {"deepseek", "paddle", "tesseract"}

\* the files a request can name: a missing path, or an existing PDF of 1..MaxPages
\* pages or an image, at or above the size threshold; image_tokens is
\* width*height/5000 of an image
ImageTokens == {300, 2500}
FileSizesMB == {StreamThresholdMB, StreamThresholdMB + 1}
NoFile == [exists |-> FALSE, size_mb |-> 0, pdf |-> FALSE, pages |-> 0, image_tokens |-> 0]
Files ==
    {NoFile}
    \cup [exists : {TRUE}, size_mb : FileSizesMB, pdf : {TRUE}, pages : 1..MaxPages, image_tokens : {0}]
    \cup [exists : {TRUE}, size_mb : FileSizesMB, pdf : {FALSE}, pages : {1}, image_tokens : ImageTokens]

NoLocals == [pages_left |-> 0, guarded |-> FALSE]
\* no generator has been created
NoDecoding == [state |-> "none", n |-> 0, cuda |-> FALSE, yielded |-> 0, clears |-> 0]
NoRendering == [state |-> "none", exists |-> FALSE, total_pages |-> 0,
                max_pages |-> [given |-> FALSE, value |-> 0],
                page_num |-> 0, rendered |-> 0, yielded |-> <<>>, doc_open |-> FALSE]
\* no loader is used on its own
NoLoader == [model |-> None, use_quantization |-> TRUE, cuda |-> FALSE, ops |-> 0,
             last_load |-> "none", last |-> [op |-> "none", kind |-> "none", status |-> "none"]]
NoResult == [kind |-> "none", source |-> "none", status |-> "none", engine |-> "none", exc |-> None, pages |-> <<>>]

\* ------------------------------------------------------------ controller

\* HybridOCR.check_deepseek_memory: the probe HybridOCR.__init__ keeps in
\* deepseek_available; free is the free accelerator memory in GB
check_deepseek_memory(cuda, free) ==
    cuda /\ free > 4

ProbeOutcomes == {check_deepseek_memory(cuda, free) : cuda \in BOOLEAN, free \in 0..MaxFreeGB}

\* LaptopDeepSeekOCR.__init__: every component unset; HybridOCR.__init__ probes
\* the accelerator (check_deepseek_memory) and the paddleocr import
Construct(avail, pad) ==
    /\ initialized' = FALSE
    /\ model' = None
    /\ model_loader' = None
    /\ loader_model' = None
    /\ encoder' = None
    /\ decoder' = None
    /\ current_mode' = None
    /\ deepseek_available' = avail
    /\ paddle' = pad
    /\ enable_tesseract' = TRUE

\* a call starts: the locals and the history of the previous call are gone
FreshCall ==
    /\ req' = NoFile
    /\ mode' = None
    /\ stream' = FALSE
    /\ page_num' = 0
    /\ all_text' = <<>>
    /\ guarded' = FALSE
    /\ ratio_info' = None
    /\ ret_to' = None
    /\ force_engine' = None
    /\ service_arg' = FALSE
    /\ engine' = None
    /\ tried' = <<>>
    /\ result' = NoResult
    /\ load_attempts' = 0
    /\ primary_invoked' = {}
    /\ unsafe_seen' = FALSE
    /\ primary_exc' = None

\* get_deepseek_service: the singleton is created when the global is None
get_deepseek_service(avail, pad) ==
    IF deepseek_instance = 0
    THEN /\ deepseek_instance' = 1
         /\ Construct(avail, pad)
    ELSE /\ deepseek_instance' = deepseek_instance
         /\ UNCHANGED <<ctrl, fbv>>

\* get_deepseek_service() called by a holder other than the request layer
acquire_service ==
    /\ pc = "idle"
    /\ deepseek_instance = 0
    /\ \E avail \in ProbeOutcomes, pad \in BOOLEAN : get_deepseek_service(avail, pad)
    /\ FreshCall
    /\ UNCHANGED <<deepseek_service, pc, lifecycle, retired, cleanups, fnv, loopv, genv>>

\* POST /ocr/init, up to the call of initialize: fetch the singleton and keep
\* it in the route's global
initialize_service ==
    /\ pc = "idle"
    /\ \E avail \in ProbeOutcomes, pad \in BOOLEAN : get_deepseek_service(avail, pad)
    /\ deepseek_service' = deepseek_instance'
    /\ pc' = "init_call"
    /\ FreshCall
    /\ UNCHANGED <<lifecycle, retired, cleanups, fnv, loopv, genv>>

\* LaptopDeepSeekOCR.initialize, up to the call of load_model: a new loader
\* replaces the old one. Called by POST /ocr/init, or by any holder of the
\* controller
initialize ==
    /\ \/ pc = "init_call"
       \/ pc = "idle" /\ deepseek_instance # 0
    /\ model_loader' = "loader"
    /\ loader_model' = None
    /\ pc' = "initializing"
    /\ lifecycle' = "initializing"
    /\ cleanups' = 0
    /\ FreshCall
    /\ UNCHANGED <<glob, initialized, model, encoder, decoder, current_mode, fbv, retired, fnv, loopv, genv>>

\* load_model retried once by initialize when the first attempt fails
load_model_retry(ok) ==
    /\ pc = "initializing"
    /\ load_attempts' = load_attempts + 1
    /\ IF ok
       THEN /\ loader_model' = "model"
            /\ model' = "model"
            /\ encoder' = "encoder"
            /\ decoder' = "decoder"
            /\ current_mode' = "tiny"
            /\ initialized' = TRUE
            /\ result' = [NoResult EXCEPT !.kind = "return", !.status = "True"]
            /\ lifecycle' = "ready"
            /\ pc' = "idle"
       ELSE IF load_attempts = 0
       THEN UNCHANGED <<initialized, loader_model, model, encoder, decoder, current_mode,
                        result, lifecycle, pc>>
       ELSE /\ initialized' = FALSE
            /\ UNCHANGED <<loader_model, model, encoder, decoder, current_mode>>
            /\ result' = [NoResult EXCEPT !.kind = "return", !.status = "False"]
            /\ lifecycle' = "degraded"
            /\ pc' = "idle"
    /\ UNCHANGED <<glob, fbv, model_loader, reqv, rtv, primary_invoked, unsafe_seen, primary_exc, retired, cleanups, fnv, loopv, genv>>

\* OptimizedModelLoader.load_model as called by initialize, and the rest of
\* initialize: ok is whether from_pretrained succeeds
load_model(ok) ==
    /\ pc = "initializing"
    /\ load_attempts' = load_attempts + 1
    /\ IF ok
       THEN /\ loader_model' = "model"
            /\ model' = "model"
            /\ encoder' = "encoder"
            /\ decoder' = "decoder"
            /\ current_mode' = "tiny"
            /\ initialized' = TRUE
            /\ result' = [NoResult EXCEPT !.kind = "return", !.status = "True"]
            /\ lifecycle' = "ready"
       ELSE /\ initialized' = FALSE
            /\ UNCHANGED <<loader_model, model, encoder, decoder, current_mode>>
            /\ result' = [NoResult EXCEPT !.kind = "return", !.status = "False"]
            /\ lifecycle' = "degraded"
    /\ pc' = "idle"
    /\ UNCHANGED <<glob, fbv, model_loader, reqv, rtv, primary_invoked, unsafe_seen, primary_exc, retired, cleanups, fnv, loopv, genv>>

\* OptimizedModelLoader.unload_model
unload_model ==
    IF loader_model # None THEN loader_model' = None ELSE loader_model' = loader_model

\* cleanup that forgets to drop the encoder
cleanup_body_keeps_encoder ==
    /\ IF model_loader # None THEN unload_model ELSE UNCHANGED loader_model
    /\ model' = None
    /\ decoder' = None
    /\ UNCHANGED <<initialized, model_loader, current_mode, encoder>>

\* LaptopDeepSeekOCR.cleanup
cleanup_body ==
    /\ IF model_loader # None THEN unload_model ELSE UNCHANGED loader_model
    /\ model' = None
    /\ encoder' = None
    /\ decoder' = None
    /\ UNCHANGED <<initialized, model_loader, current_mode>>

cleanup ==
    /\ pc = "idle"
    /\ deepseek_instance # 0
    /\ cleanups < MaxCleanups
    /\ cleanup_body
    /\ lifecycle' = "unloaded"
    /\ cleanups' = cleanups + 1
    /\ FreshCall
    /\ UNCHANGED <<glob, fbv, pc, retired, fnv, loopv, genv>>

\* POST /ocr/cleanup: cleanup() on the route's handle, then the handle is
\* dropped; the module global _deepseek_instance is left as it is
cleanup_resources ==
    /\ pc = "idle"
    /\ cleanups < MaxCleanups
    /\ FreshCall
    /\ IF deepseek_service # 0
       THEN /\ cleanup_body
            /\ lifecycle' = "unloaded"
            /\ cleanups' = cleanups + 1
            /\ deepseek_service' = 0
            /\ retired' = retired \cup {deepseek_service}
       ELSE UNCHANGED <<ctrl, lifecycle, cleanups, deepseek_service, retired>>
    /\ UNCHANGED <<deepseek_instance, fbv, pc, fnv, loopv, genv>>

\* ------------------------------------------------- encoder and compressor

\* LaptopDeepEncoder.mode_configs[m]['memory_required_gb']
memory_required_gb(m) ==
    CASE m = "tiny" -> 2
      [] m = "small" -> 4
      [] m = "base" -> 8

\* LaptopDeepEncoder.mode_configs[m]['max_text_tokens']
max_text_tokens(m) ==
    CASE m = "tiny" -> 600
      [] m = "small" -> 900
      [] m = "base" -> 2500

\* auto_select_mode that admits a complexity equal to the bound of a mode
auto_select_mode_inclusive(free_memory, document_complexity) ==
    IF free_memory >= 8 /\ document_complexity <= 2500 THEN "base"
    ELSE IF free_memory >= 4 /\ document_complexity <= 900 THEN "small"
    ELSE "tiny"

\* auto_select_mode that tests the bar of small before the bar of base
auto_select_mode_small_first(free_memory, document_complexity) ==
    IF free_memory >= 4 /\ document_complexity < 900 THEN "small"
    ELSE IF free_memory >= 8 /\ document_complexity < 2500 THEN "base"
    ELSE "tiny"

\* auto_select_mode with the memory bar of small used for base
auto_select_mode_low_bar(free_memory, document_complexity) ==
    IF free_memory >= 4 /\ document_complexity < 2500 THEN "base"
    ELSE IF free_memory >= 4 /\ document_complexity < 900 THEN "small"
    ELSE "tiny"

\* LaptopDeepEncoder.auto_select_mode: the mode chosen from the free accelerator
\* memory (GB) and the estimated complexity (tokens)
auto_select_mode(free_memory, document_complexity) ==
    IF free_memory >= 8 /\ document_complexity < 2500 THEN "base"
    ELSE IF free_memory >= 4 /\ document_complexity < 900 THEN "small"
    ELSE "tiny"

\* AdaptiveCompressor.compression_modes[m]['safe_ratio'], in tenths;
\* .get('safe_ratio', 10.0) for a mode outside the table
safe_ratio_x10(m) ==
    CASE m = "tiny" -> 94
      [] m = "small" -> 90
      [] m = "base" -> 98
      [] OTHER -> 100

\* round(original / compressed, 2), in hundredths (ties to even)
round2(original_tokens, compressed_tokens) ==
    LET q == (100 * original_tokens) \div compressed_tokens
        r == (100 * original_tokens) % compressed_tokens
    IN IF 2 * r > compressed_tokens \/ (2 * r = compressed_tokens /\ q % 2 = 1)
       THEN q + 1
       ELSE q

\* monitor_compression_ratio with 'safe' computed from the inverted ratio
\* (compressed / original <= 10.0)
monitor_compression_ratio_inverted(original_tokens, compressed_tokens, m) ==
    IF compressed_tokens = 0
    THEN [ratio_x100 |-> 0, status |-> "error", safe |-> FALSE]
    ELSE [ratio_x100 |-> round2(original_tokens, compressed_tokens),
          status |->
              IF original_tokens > UnsafeRatio * compressed_tokens THEN "warning"
              ELSE IF 10 * original_tokens > safe_ratio_x10(m) * compressed_tokens THEN "caution"
              ELSE "ok",
          safe |-> compressed_tokens <= UnsafeRatio * original_tokens]

\* monitor_compression_ratio that tests the mode's safe ratio before the
\* 10.0 threshold
monitor_compression_ratio_caution_first(original_tokens, compressed_tokens, m) ==
    IF compressed_tokens = 0
    THEN [ratio_x100 |-> 0, status |-> "error", safe |-> FALSE]
    ELSE [ratio_x100 |-> round2(original_tokens, compressed_tokens),
          status |->
              IF 10 * original_tokens > safe_ratio_x10(m) * compressed_tokens THEN "caution"
              ELSE IF original_tokens > UnsafeRatio * compressed_tokens THEN "warning"
              ELSE "ok",
          safe |-> original_tokens <= UnsafeRatio * compressed_tokens]

\* monitor_compression_ratio with 'safe' computed from the mode's own safe
\* ratio (ratio <= safe_ratio)
monitor_compression_ratio_safe_by_mode(original_tokens, compressed_tokens, m) ==
    IF compressed_tokens = 0
    THEN [ratio_x100 |-> 0, status |-> "error", safe |-> FALSE]
    ELSE [ratio_x100 |-> round2(original_tokens, compressed_tokens),
          status |->
              IF original_tokens > UnsafeRatio * compressed_tokens THEN "warning"
              ELSE IF 10 * original_tokens > safe_ratio_x10(m) * compressed_tokens THEN "caution"
              ELSE "ok",
          safe |-> 10 * original_tokens <= safe_ratio_x10(m) * compressed_tokens]

\* AdaptiveCompressor.monitor_compression_ratio: ratio = original / compressed
\* is compared as integers (ratio > r  iff  original > r * compressed); the
\* dict's 'ratio' (in hundredths), 'status' and 'safe' are kept
monitor_compression_ratio(original_tokens, compressed_tokens, m) ==
    IF compressed_tokens = 0
    THEN [ratio_x100 |-> 0, status |-> "error", safe |-> FALSE]
    ELSE [ratio_x100 |-> round2(original_tokens, compressed_tokens),
          status |->
              IF original_tokens > UnsafeRatio * compressed_tokens THEN "warning"
              ELSE IF 10 * original_tokens > safe_ratio_x10(m) * compressed_tokens THEN "caution"
              ELSE "ok",
          safe |-> original_tokens <= UnsafeRatio * compressed_tokens]

\* EfficientRenderer.estimate_document_complexity and
\* HybridOCR._estimate_document_complexity: pages * 500 for a PDF,
\* width * height / 5000 for an image
estimate_document_complexity(f) ==
    IF f.pdf THEN f.pages * TokensPerPage ELSE f.image_tokens

\* what estimate_text_tokens returns for a page (clamped to 100..5000), what
\* len(tokens.flatten()) is, and the free accelerator memory a request sees
EstTextTokens == {100, 1000}
CompressedCounts == {0, 64, 100}
FreeMemoryGB == {0, 4, 8}

\* LaptopDeepEncoder.encode: out is what the model call does: it yields tokens,
\* or raises torch.cuda.OutOfMemoryError ("oom", logged and re-raised), or
\* raises another exception ("error", not caught)
encode(out) ==
    IF out = "tokens"
    THEN [kind |-> "return", exc |-> None]
    ELSE [kind |-> "raise", exc |-> IF out = "oom" THEN "OutOfMemoryError" ELSE "RuntimeError"]

\* AdaptiveCompressor.cpu_compress: one encode with the model on the host, the
\* model is moved back in the finally clause
cpu_compress(cpu_out, attempts, cleared) ==
    [kind |-> encode(cpu_out).kind, exc |-> encode(cpu_out).exc,
     attempts |-> Append(attempts, "cpu"), cache_cleared |-> cleared]

\* compress_with_fallback whose except clause catches every exception
compress_with_fallback_catch_all(cuda, gpu_out, cpu_out) ==
    IF cuda
    THEN IF encode(gpu_out).kind = "return"
         THEN [kind |-> "return", exc |-> None, attempts |-> <<"gpu">>, cache_cleared |-> FALSE]
         ELSE cpu_compress(cpu_out, <<"gpu">>, TRUE)
    ELSE cpu_compress(cpu_out, <<>>, FALSE)

\* AdaptiveCompressor.compress_with_fallback: cuda is torch.cuda.is_available(),
\* gpu_out and cpu_out what encode does in gpu_compress and in cpu_compress.
\* The result tells how the call ends, the attempts made in order and whether
\* torch.cuda.empty_cache() was called by the except clause
compress_with_fallback(cuda, gpu_out, cpu_out) ==
    IF cuda
    THEN IF encode(gpu_out).kind = "return"
         THEN [kind |-> "return", exc |-> None, attempts |-> <<"gpu">>, cache_cleared |-> FALSE]
         ELSE IF encode(gpu_out).exc = "OutOfMemoryError"
         THEN cpu_compress(cpu_out, <<"gpu">>, TRUE)
         ELSE [kind |-> "raise", exc |-> encode(gpu_out).exc, attempts |-> <<"gpu">>,
               cache_cleared |-> FALSE]
    ELSE cpu_compress(cpu_out, <<>>, FALSE)

\* LaptopDeepEncoder._prepare_image_tensor: the device the input tensor ends
\* on. It is moved to the accelerator whenever one is available and
\* _is_memory_critical() is False, wherever the model is
prepare_image_tensor(cuda, critical) ==
    IF cuda /\ ~critical THEN "cuda" ELSE "cpu"

\* LaptopDeepEncoder.encode with the model on model_device: the tensor is
\* prepared and the model invoked on it; a tensor on another device than the
\* model's weights makes the invocation raise RuntimeError, otherwise out is
\* what the model does
encode_on(model_device, cuda, critical, out) ==
    LET tensor_device == prepare_image_tensor(cuda, critical)
        r == IF tensor_device # model_device
             THEN [kind |-> "raise", exc |-> "RuntimeError"]
             ELSE encode(out)
    IN [kind |-> r.kind, exc |-> r.exc, tensor_device |-> tensor_device,
        model_device |-> model_device]

\* cpu_compress without the finally clause: the model is moved back only when
\* encode returned
cpu_compress_on_no_finally(cuda, original_device, critical, cpu_out) ==
    LET r == encode_on("cpu", cuda, critical, cpu_out)
    IN [kind |-> r.kind, exc |-> r.exc, invocations |-> <<r>>,
        model_device |-> IF r.kind = "return" THEN original_device ELSE "cpu"]

\* AdaptiveCompressor.cpu_compress with the devices: the model is moved to the
\* host when it is not there, encode is called, and the finally clause moves
\* the model back to original_device
cpu_compress_on(cuda, original_device, critical, cpu_out) ==
    LET r == encode_on("cpu", cuda, critical, cpu_out)
    IN [kind |-> r.kind, exc |-> r.exc, invocations |-> <<r>>,
        model_device |-> original_device]

\* AdaptiveCompressor.compress_with_fallback with the devices: original_device
\* is where the encoder's model is before the call, critical_first and
\* critical_retry are _is_memory_critical() when the tensor of the first and
\* of the retried encode is prepared. invocations lists the encode calls with
\* the devices of the tensor and of the model, model_device is where the model
\* is when the call ends
compress_with_fallback_on(cuda, original_device, critical_first, gpu_out, critical_retry, cpu_out) ==
    IF cuda
    THEN LET first == encode_on(original_device, cuda, critical_first, gpu_out)
         IN IF first.kind = "return" \/ first.exc # "OutOfMemoryError"
            THEN [kind |-> first.kind, exc |-> first.exc, invocations |-> <<first>>,
                  model_device |-> original_device, host_retry |-> FALSE]
            ELSE LET retry == cpu_compress_on(cuda, original_device, critical_retry, cpu_out)
                 IN [kind |-> retry.kind, exc |-> retry.exc,
                     invocations |-> <<first>> \o retry.invocations,
                     model_device |-> retry.model_device, host_retry |-> TRUE]
    ELSE LET only == cpu_compress_on(cuda, original_device, critical_retry, cpu_out)
         IN [kind |-> only.kind, exc |-> only.exc, invocations |-> only.invocations,
             model_device |-> only.model_device, host_retry |-> FALSE]

\* LaptopDeepEncoder._is_memory_critical
is_memory_critical(cuda, allocated, reserved) ==
    cuda /\ reserved > 0 /\ 10 * allocated > 9 * reserved

\* one pass of the loop of encode_with_chunking in which an out-of-memory error
\* ends the call at once
encode_item_no_retry(im, m, idx) ==
    IF encode(im.first).kind = "return"
    THEN [kind |-> "append", exc |-> None,
          chunk |-> [item |-> idx, mode |-> m, device |-> "cuda"],
          offloaded |-> is_memory_critical(TRUE, im.usage.allocated, im.usage.reserved)]
    ELSE [kind |-> "raise", exc |-> encode(im.first).exc, chunk |-> None, offloaded |-> FALSE]

\* one pass of the loop of encode_with_chunking, on an accelerator: image idx
\* is encoded at mode m and the tokens (on the accelerator) are appended; then,
\* if memory is critical, the local variable tokens is rebound to a host copy
\* (offloaded), the appended buffer is the one encode returned. On an
\* out-of-memory error at another mode than tiny the image is encoded at tiny
\* and the host copy of the result is appended
encode_item(im, m, idx) ==
    IF encode(im.first).kind = "return"
    THEN [kind |-> "append", exc |-> None,
          chunk |-> [item |-> idx, mode |-> m, device |-> "cuda"],
          offloaded |-> is_memory_critical(TRUE, im.usage.allocated, im.usage.reserved)]
    ELSE IF encode(im.first).exc = "OutOfMemoryError" /\ m # "tiny"
    THEN IF encode(im.retry).kind = "return"
         THEN [kind |-> "append", exc |-> None,
               chunk |-> [item |-> idx, mode |-> "tiny", device |-> "cpu"],
               offloaded |-> FALSE]
         ELSE [kind |-> "raise", exc |-> encode(im.retry).exc, chunk |-> None,
               offloaded |-> FALSE]
    ELSE [kind |-> "raise", exc |-> encode(im.first).exc, chunk |-> None, offloaded |-> FALSE]

\* the loop of encode_with_chunking from image idx on; offloads are the images
\* after which the memory was critical
RECURSIVE encode_chunks(_, _, _, _, _)
encode_chunks(images, m, idx, encoded_chunks, offloads) ==
    IF idx > Len(images)
    THEN [kind |-> "return", exc |-> None, chunks |-> encoded_chunks, offloads |-> offloads]
    ELSE LET step == encode_item(images[idx], m, idx)
         IN IF step.kind = "raise"
            THEN [kind |-> "raise", exc |-> step.exc, chunks |-> encoded_chunks,
                  offloads |-> offloads]
            ELSE encode_chunks(images, m, idx + 1, Append(encoded_chunks, step.chunk),
                               IF step.offloaded THEN Append(offloads, idx) ELSE offloads)

\* LaptopDeepEncoder.encode_with_chunking; mode None is the encoder's
\* current_mode
encode_with_chunking(images, m) ==
    encode_chunks(images, IF m = None THEN current_mode ELSE m, 1, <<>>, <<>>)

\* ---------------------------------------------------------------- renderer

Abs(n) == IF n < 0 THEN -n ELSE n

\* PIL's Image.thumbnail((x, y)) on an image of w by h pixels: unchanged when it
\* already fits; otherwise the side that does not bind is the floor or the
\* ceiling of its scaled length, whichever keeps the aspect ratio closer (the
\* floor on a tie), and at least 1
thumbnail(w, h, x, y) ==
    IF x >= w /\ y >= h
    THEN [w |-> w, h |-> h]
    ELSE IF x * h >= w * y
    THEN LET lo == (y * w) \div h
             hi == IF (y * w) % h = 0 THEN lo ELSE lo + 1
             n == IF Abs(w * y - lo * h) <= Abs(w * y - hi * h) THEN lo ELSE hi
         IN [w |-> IF n < 1 THEN 1 ELSE n, h |-> y]
    ELSE LET lo == (x * h) \div w
             hi == IF (x * h) % w = 0 THEN lo ELSE lo + 1
             n == IF lo = 0 \/ Abs(w * lo - x * h) * hi <= Abs(w * hi - x * h) * lo
                  THEN lo ELSE hi
         IN [w |-> x, h |-> IF n < 1 THEN 1 ELSE n]

\* PIL's Image.resize((w, h)): a size with a side below 1 pixel is refused with
\* ValueError("height and width must be > 0")
resize(w, h) ==
    IF w < 1 \/ h < 1
    THEN [kind |-> "raise", exc |-> "ValueError", size |-> [w |-> 0, h |-> 0]]
    ELSE [kind |-> "return", exc |-> None, size |-> [w |-> w, h |-> h]]

\* EfficientRenderer._resize_to_target: up to a target width of 640 the image
\* is reduced in place to fit the target, and only when it is larger; above,
\* it is scaled by ratio = min(target_w / original_w, target_h / original_h)
\* to int(original_w * ratio) by int(original_h * ratio) and pasted on a canvas
\* of the target size
resize_to_target(original, target) ==
    IF target.w <= ResizeDirectMax
    THEN [kind |-> "return", exc |-> None,
          size |-> IF original.w > target.w \/ original.h > target.h
                   THEN thumbnail(original.w, original.h, target.w, target.h)
                   ELSE original]
    ELSE LET by_width == target.w * original.h <= target.h * original.w
             new_w == IF by_width THEN target.w ELSE (original.w * target.h) \div original.h
             new_h == IF by_width THEN (original.h * target.w) \div original.w ELSE target.h
             img_resized == resize(new_w, new_h)
         IN IF img_resized.kind = "raise"
            THEN img_resized
            ELSE [kind |-> "return", exc |-> None, size |-> target]

\* ------------------------------------------------------------ memory guard

\* the accelerator's caching allocator: allocated bytes are in live tensors,
\* reserved bytes are held by the allocator, releasable is the part of
\* reserved - allocated that empty_cache can give back
CacheStates ==
    {[allocated |-> a, reserved |-> r, releasable |-> f] :
        a \in {0, 5, 9, 10}, r \in {0, 10, 20}, f \in {0, 1, 10}}
CacheOk(c) == c.allocated + c.releasable <= c.reserved

\* torch.cuda.empty_cache(): the unused cached blocks are released
empty_cache(c) ==
    [allocated |-> c.allocated, reserved |-> c.reserved - c.releasable, releasable |-> 0]

\* MemoryGuard.__enter__: with an accelerator the cache is cleared and the
\* allocated memory is recorded in initial_memory
guard_enter(cuda, c) ==
    IF cuda
    THEN [cache |-> empty_cache(c), cleared |-> TRUE, initial_memory |-> c.allocated]
    ELSE [cache |-> c, cleared |-> FALSE, initial_memory |-> None]

\* __exit__ that clears only when the body ended without an exception
guard_exit_on_success_only(cuda, c, exc) ==
    IF cuda /\ exc = None
    THEN [cache |-> empty_cache(c), cleared |-> TRUE, suppress |-> FALSE]
    ELSE [cache |-> c, cleared |-> FALSE, suppress |-> FALSE]

\* MemoryGuard.__exit__: with an accelerator the cache is cleared, whatever
\* exc_type is; the return value False never suppresses the exception
guard_exit(cuda, c, exc) ==
    IF cuda
    THEN [cache |-> empty_cache(c), cleared |-> TRUE, suppress |-> FALSE]
    ELSE [cache |-> c, cleared |-> FALSE, suppress |-> FALSE]

\* "with MemoryGuard():" nested depth deep around a body that leaves
\* body.cached more releasable bytes in the cache and raises or not: the route
\* handler's guard around process_file, whose _process_with_deepseek has its
\* own guard, is depth 2. events lists the clears and the body in order
RECURSIVE with_MemoryGuard(_, _, _, _)
with_MemoryGuard(depth, cuda, c, body) ==
    LET entered == guard_enter(cuda, c)
        inner == IF depth = 1
                 THEN [cache |-> [entered.cache EXCEPT !.reserved = @ + body.cached,
                                                       !.releasable = @ + body.cached],
                       exc |-> IF body.raises THEN "RuntimeError" ELSE None,
                       events |-> <<"body">>,
                       baselines |-> <<>>]
                 ELSE with_MemoryGuard(depth - 1, cuda, entered.cache, body)
        exited == guard_exit(cuda, inner.cache, inner.exc)
    IN [cache |-> exited.cache,
        exc |-> IF exited.suppress THEN None ELSE inner.exc,
        events |-> (IF entered.cleared THEN <<"enter_clear">> ELSE <<>>) \o inner.events
                   \o (IF exited.cleared THEN <<"exit_clear">> ELSE <<>>),
        baselines |-> <<entered.initial_memory>> \o inner.baselines]

\* check_and_clear that also clears when the usage equals the threshold
check_and_clear_at_threshold(cuda, threshold, c) ==
    IF ~cuda
    THEN [cache |-> c, cleared |-> FALSE, returned |-> FALSE]
    ELSE IF c.reserved > 0 /\ 100 * c.allocated >= threshold * c.reserved
    THEN [cache |-> empty_cache(c), cleared |-> TRUE, returned |-> TRUE]
    ELSE [cache |-> c, cleared |-> FALSE, returned |-> FALSE]

\* MemoryGuard.check_and_clear: allocated / reserved * 100 > self.threshold is
\* 100 * allocated > threshold * reserved for reserved > 0
check_and_clear(cuda, threshold, c) ==
    IF ~cuda
    THEN [cache |-> c, cleared |-> FALSE, returned |-> FALSE]
    ELSE IF c.reserved > 0 /\ 100 * c.allocated > threshold * c.reserved
    THEN [cache |-> empty_cache(c), cleared |-> TRUE, returned |-> TRUE]
    ELSE [cache |-> c, cleared |-> FALSE, returned |-> FALSE]

\* ----------------------------------------------------------------- decoder

\* StreamingDecoder._create_prompt: the table of prompts, one per format
format_prompts ==
    [output_format \in {"text", "markdown", "html", "grounding"} |->
        CASE output_format = "text" -> "<image>\nFree OCR."
          [] output_format = "markdown" -> "<image>\n<|grounding|>Convert the document to markdown."
          [] output_format = "html" -> "<image>\nParse as HTML table."
          [] output_format = "grounding" -> "<image>\n<|grounding|>Extract text with bounding boxes."]

\* StreamingDecoder._create_prompt: format_prompts.get(output_format,
\* format_prompts['text'])
create_prompt(output_format) ==
    IF output_format \in DOMAIN format_prompts
    THEN format_prompts[output_format]
    ELSE format_prompts["text"]

\* StreamingDecoder.decode: decode_streaming joined when stream, _decode_batch
\* otherwise; both build the prompt first and then generate. generate_ok is
\* whether the model's generation succeeds; an exception of it is logged and
\* raised again
decode(output_format, strm, generate_ok) ==
    LET prompt == create_prompt(output_format)
    IN IF generate_ok
       THEN [kind |-> "return", prompt |-> prompt, exc |-> None,
             path |-> IF strm THEN "decode_streaming" ELSE "_decode_batch"]
       ELSE [kind |-> "raise", prompt |-> prompt, exc |-> "RuntimeError",
             path |-> IF strm THEN "decode_streaming" ELSE "_decode_batch"]

\* StreamingDecoder._token_to_text: chr(token_id) below 128, the empty string
\* otherwise; a string is the sequence of its characters' code points
token_to_text(token_id) ==
    IF token_id < AsciiLimit THEN <<token_id>> ELSE <<>>

\* StreamingDecoder._decode_batch when generation succeeds: text is what the
\* model's tokenizer decodes from the generated ids; the prompt built from
\* output_format is passed to no generation that uses it
decode_batch(text, output_format) == text

\* StreamingDecoder._generate_tokens_iteratively: _decode_batch with format
\* 'text', then ord(char) of each character
generate_tokens_iteratively(text) == decode_batch(text, "text")

\* ''.join(decode_streaming(...)): the units are _token_to_text of each
\* generated token, in order
RECURSIVE join_units(_)
join_units(token_ids) ==
    IF token_ids = <<>> THEN <<>>
    ELSE token_to_text(Head(token_ids)) \o join_units(Tail(token_ids))

\* StreamingDecoder.decode on tokens the model reads as text: the joined
\* stream when stream, the batch text otherwise
decode_text(text, output_format, strm) ==
    IF strm THEN join_units(generate_tokens_iteratively(text))
    ELSE decode_batch(text, output_format)

\* ------------------------------------------------------------ process_file

\* the primary pipeline raises exc: inside process_file's try the exception is
\* caught and the router is called; on the streaming path nothing catches it
PrimaryRaise(exc) ==
    /\ primary_exc' = exc
    /\ IF guarded
       THEN /\ pc' = "router"
            /\ ret_to' = "fallback"
            /\ result' = result
       ELSE /\ pc' = "idle"
            /\ ret_to' = ret_to
            /\ result' = [NoResult EXCEPT !.kind = "raise", !.exc = exc]

\* an existence test that takes every path for an existing file
path_exists_unchecked(f) == TRUE

\* Path(file_path).exists()
path_exists(f) == f.exists

\* LaptopDeepSeekOCR.process_file, up to the first call it makes
process_file(f, m, s) ==
    /\ pc = "idle"
    /\ deepseek_instance # 0
    /\ req' = f
    /\ mode' = m
    /\ page_num' = 0
    /\ all_text' = <<>>
    /\ ratio_info' = None
    /\ force_engine' = None
    /\ service_arg' = FALSE
    /\ engine' = None
    /\ tried' = <<>>
    /\ load_attempts' = 0
    /\ primary_invoked' = {}
    /\ unsafe_seen' = FALSE
    /\ primary_exc' = None
    /\ IF ~path_exists(f)
       THEN /\ result' = [NoResult EXCEPT !.kind = "raise", !.exc = "FileNotFoundError"]
            /\ pc' = "idle"
            /\ stream' = s
            /\ guarded' = FALSE
            /\ ret_to' = None
       ELSE IF f.size_mb > StreamThresholdMB
       THEN \* _process_streaming: _process_with_deepseek(..., stream=True)
            /\ result' = NoResult
            /\ pc' = "render"
            /\ stream' = TRUE
            /\ guarded' = FALSE
            /\ ret_to' = None
       ELSE IF initialized /\ model # None
       THEN /\ result' = NoResult
            /\ pc' = "render"
            /\ stream' = s
            /\ guarded' = TRUE
            /\ ret_to' = None
       ELSE /\ result' = NoResult
            /\ pc' = "router"
            /\ stream' = s
            /\ guarded' = FALSE
            /\ ret_to' = "fallback"
    /\ UNCHANGED <<glob, ctrl, fbv, lifecycle, retired, cleanups, fnv, loopv, genv>>

\* _process_with_deepseek: the renderer produces the next page (render_image, or
\* the next item of render_pdf_streaming); ok is whether rendering succeeds
render_page(ok) ==
    /\ pc = "render"
    /\ page_num < req.pages
    /\ primary_invoked' = primary_invoked \cup {"renderer"}
    /\ IF ok
       THEN /\ pc' = "compress"
            /\ UNCHANGED <<primary_exc, ret_to, result>>
       ELSE PrimaryRaise("RenderError")
    /\ UNCHANGED <<glob, ctrl, fbv, reqv, force_engine, service_arg, engine, tried,
                   lifecycle, load_attempts, unsafe_seen, retired, cleanups, fnv, loopv, genv>>

\* _process_with_deepseek: the page loop is exhausted, the pages are joined
primary_return ==
    /\ pc = "render"
    /\ page_num = req.pages
    /\ result' = [NoResult EXCEPT !.kind = "text", !.source = "primary",
                                  !.status = "success", !.engine = "deepseek",
                                  !.pages = all_text]
    /\ pc' = "idle"
    /\ UNCHANGED <<glob, ctrl, fbv, reqv, rtv, hist, fnv, loopv, genv>>

\* _process_with_deepseek, one page from mode selection to the ratio check:
\* free is the free accelerator memory, out the outcome of
\* compress_with_fallback, est and comp the token counts of the page
compress_page(free, out, est, comp) ==
    /\ pc = "compress"
    /\ LET auto == mode = None
           m == IF auto
                THEN auto_select_mode(free, estimate_document_complexity(req))
                ELSE mode
           info == monitor_compression_ratio(est, comp, m)
       IN IF encoder = None
          THEN \* self.encoder.auto_select_mode / encoder.encode on None
               /\ primary_invoked' = primary_invoked \cup
                      (IF auto THEN {"renderer"} ELSE {"compressor"})
               /\ PrimaryRaise("AttributeError")
               /\ UNCHANGED <<mode, current_mode, unsafe_seen, ratio_info>>
          ELSE /\ primary_invoked' = primary_invoked \cup
                      (IF auto THEN {"renderer"} ELSE {}) \cup {"encoder", "compressor"}
               /\ mode' = m
               /\ current_mode' = IF auto THEN m ELSE current_mode
               /\ IF out = "raise"
                  THEN /\ PrimaryRaise("RuntimeError")
                       /\ UNCHANGED <<unsafe_seen, ratio_info>>
                  ELSE /\ unsafe_seen' = (comp # 0 /\ est > UnsafeRatio * comp)
                       /\ ratio_info' = info
                       /\ UNCHANGED <<primary_exc, result>>
                       /\ IF ~info.safe
                          THEN \* return self.fallback.process_document(...)['text']
                               /\ pc' = "router"
                               /\ ret_to' = "unsafe"
                          ELSE /\ pc' = "decode"
                               /\ ret_to' = ret_to
    /\ UNCHANGED <<glob, initialized, model, model_loader, loader_model, encoder, decoder,
                   fbv, req, stream, page_num, all_text, guarded, force_engine, service_arg, engine, tried,
                   lifecycle, load_attempts, retired, cleanups, fnv, loopv, genv>>

\* _process_with_deepseek: the page's tokens are decoded (decode_streaming
\* joined when stream, decode otherwise) and the text is appended
decode_page(ok) ==
    /\ pc = "decode"
    /\ primary_invoked' = primary_invoked \cup {"decoder"}
    /\ IF ok
       THEN /\ all_text' = Append(all_text, page_num)
            /\ page_num' = page_num + 1
            /\ pc' = "render"
            /\ UNCHANGED <<primary_exc, ret_to, result>>
       ELSE /\ PrimaryRaise("DecodeError")
            /\ UNCHANGED <<all_text, page_num>>
    /\ UNCHANGED <<glob, ctrl, fbv, req, mode, stream, guarded, ratio_info,
                   force_engine, service_arg, engine, tried,
                   lifecycle, load_attempts, unsafe_seen, retired, cleanups, fnv, loopv, genv>>

\* one page of _process_with_deepseek from compress_with_fallback on, as
\* process_file runs it: in_try is whether the call is inside process_file's
\* try (files of at most 10 MB) or on the streaming path. steps lists what is
\* attempted for the page in order, each encode with its mode; an exception of
\* compress_with_fallback is caught by process_file's except clause, which
\* calls the router, or propagates on the streaming path
process_page(cuda, m, gpu_out, cpu_out, in_try) ==
    LET tokens == compress_with_fallback(cuda, gpu_out, cpu_out)
        encodes == [i \in 1..Len(tokens.attempts) |->
                       [step |-> tokens.attempts[i], mode |-> m]]
    IN IF tokens.kind = "return"
       THEN [steps |-> encodes, outcome |-> "tokens", exc |-> None]
       ELSE IF in_try
       THEN [steps |-> Append(encodes, [step |-> "router", mode |-> None]),
             outcome |-> "router", exc |-> None]
       ELSE [steps |-> encodes, outcome |-> "raise", exc |-> tokens.exc]

\* ------------------------------------------------------------------ router

\* _select_engine that takes the primary engine without a service handle
select_engine_ignores_service(doc_complexity, svc) ==
    IF deepseek_available /\ doc_complexity < 1000 THEN "deepseek"
    ELSE IF paddle /\ doc_complexity < 2000 THEN "paddle"
    ELSE "tesseract"

\* HybridOCR._select_engine; svc is whether a deepseek_service was given
select_engine(doc_complexity, svc) ==
    IF deepseek_available /\ svc /\ doc_complexity < 1000 THEN "deepseek"
    ELSE IF paddle /\ doc_complexity < 2000 THEN "paddle"
    ELSE "tesseract"

\* process_document returns the dict of engine eng with the given status to its
\* call site: the unsafe-ratio redirect returns its 'text' whatever the status
\* (deepseek_service.py:220), the fallback after a failed or skipped primary
\* attempt returns the text of a success and raises otherwise (:158-162)
RouterReturn(eng, status) ==
    /\ pc' = "idle"
    /\ result' =
         CASE ret_to = "unsafe" ->
                [NoResult EXCEPT !.kind = "text", !.source = "router",
                                 !.status = status, !.engine = eng]
           [] ret_to = "fallback" ->
                IF status = "success"
                THEN [NoResult EXCEPT !.kind = "text", !.source = "router",
                                      !.status = status, !.engine = eng]
                ELSE [NoResult EXCEPT !.kind = "raise", !.source = "router",
                                      !.status = status, !.engine = eng,
                                      !.exc = "AllOCRFailed"]
           [] OTHER ->
                [NoResult EXCEPT !.kind = "dict", !.source = "router",
                                 !.status = status, !.engine = eng]

\* HybridOCR.process_document called on the controller's router by a holder of
\* it, with force_engine; svc is whether a deepseek_service handle (any object
\* with a process_file method) is passed. The router does not look at the
\* file's size: one size is enough
process_document(f, force, svc) ==
    /\ pc = "idle"
    /\ deepseek_instance # 0
    /\ f.exists
    /\ f.size_mb = StreamThresholdMB
    /\ req' = f
    /\ mode' = None
    /\ stream' = FALSE
    /\ page_num' = 0
    /\ all_text' = <<>>
    /\ guarded' = FALSE
    /\ ratio_info' = None
    /\ ret_to' = "direct"
    /\ force_engine' = force
    /\ service_arg' = svc
    /\ engine' = None
    /\ tried' = <<>>
    /\ result' = NoResult
    /\ load_attempts' = 0
    /\ primary_invoked' = {}
    /\ unsafe_seen' = FALSE
    /\ primary_exc' = None
    /\ pc' = "router"
    /\ UNCHANGED <<glob, ctrl, fbv, lifecycle, retired, cleanups, fnv, loopv, genv>>

\* HybridOCR.process_document: the engine is chosen and the call is routed.
\* Every call the controller makes passes deepseek_service=None
route_document ==
    /\ pc = "router"
    /\ LET e == IF force_engine # None
                THEN force_engine
                ELSE select_engine(estimate_document_complexity(req), service_arg)
       IN /\ engine' = e
          /\ pc' = IF e = "deepseek" /\ service_arg THEN "direct"
                   ELSE IF e = "paddle" /\ paddle THEN "direct"
                   ELSE IF e = "tesseract" THEN "direct"
                   ELSE "chain_deepseek"
    /\ UNCHANGED <<glob, ctrl, fbv, reqv, ret_to, force_engine, service_arg, tried, result, hist, fnv, loopv, genv>>

\* a direct engine call whose failure is followed by the fallback chain
direct_engine_then_chain(ok) ==
    /\ pc = "direct"
    /\ tried' = Append(tried, engine)
    /\ IF ok
       THEN RouterReturn(engine, "success")
       ELSE /\ pc' = "chain_deepseek"
            /\ UNCHANGED result
    /\ UNCHANGED <<glob, ctrl, fbv, reqv, ret_to, force_engine, service_arg, engine, hist, fnv, loopv, genv>>

\* _process_with_deepseek / _process_with_paddle / _process_with_tesseract
\* called by process_document itself: ok is whether the engine ends without an
\* exception; the engine's dict is returned whatever its status
direct_engine(ok) ==
    /\ pc = "direct"
    /\ tried' = Append(tried, engine)
    /\ RouterReturn(engine, IF ok THEN "success" ELSE "error")
    /\ UNCHANGED <<glob, ctrl, fbv, reqv, ret_to, force_engine, service_arg, engine, hist, fnv, loopv, genv>>

\* _fallback_chain at DeepSeek: tried when the memory probe passed and a
\* service handle was given
chain_deepseek(ok) ==
    /\ pc = "chain_deepseek"
    /\ IF deepseek_available /\ service_arg
       THEN /\ tried' = Append(tried, "deepseek")
            /\ IF ok
               THEN RouterReturn("deepseek", "success")
               ELSE /\ pc' = "chain_paddle"
                    /\ UNCHANGED result
       ELSE /\ pc' = "chain_paddle"
            /\ UNCHANGED <<tried, result>>
    /\ UNCHANGED <<glob, ctrl, fbv, reqv, ret_to, force_engine, service_arg, engine, hist, fnv, loopv, genv>>

\* PaddleOCR step of a chain in which an exception of the engine is not caught
chain_paddle_unguarded(ok) ==
    /\ pc = "chain_paddle"
    /\ IF paddle
       THEN /\ tried' = Append(tried, "paddle")
            /\ IF ok
               THEN RouterReturn("paddle", "success")
               ELSE /\ pc' = "idle"
                    /\ result' = [NoResult EXCEPT !.kind = "raise", !.source = "router",
                                                  !.status = "error", !.engine = "paddle",
                                                  !.exc = "EngineError"]
       ELSE /\ pc' = "chain_tesseract"
            /\ UNCHANGED <<tried, result>>
    /\ UNCHANGED <<glob, ctrl, fbv, reqv, ret_to, force_engine, service_arg, engine, hist, fnv, loopv, genv>>

\* _fallback_chain at PaddleOCR
chain_paddle(ok) ==
    /\ pc = "chain_paddle"
    /\ IF paddle
       THEN /\ tried' = Append(tried, "paddle")
            /\ IF ok
               THEN RouterReturn("paddle", "success")
               ELSE /\ pc' = "chain_tesseract"
                    /\ UNCHANGED result
       ELSE /\ pc' = "chain_tesseract"
            /\ UNCHANGED <<tried, result>>
    /\ UNCHANGED <<glob, ctrl, fbv, reqv, ret_to, force_engine, service_arg, engine, hist, fnv, loopv, genv>>

\* _fallback_chain at Tesseract, and its end
chain_tesseract(ok) ==
    /\ pc = "chain_tesseract"
    /\ IF enable_tesseract
       THEN /\ tried' = Append(tried, "tesseract")
            /\ IF ok
               THEN RouterReturn("tesseract", "success")
               ELSE RouterReturn("none", "error")
       ELSE /\ RouterReturn("none", "error")
            /\ UNCHANGED tried
    /\ UNCHANGED <<glob, ctrl, fbv, reqv, ret_to, force_engine, service_arg, engine, hist, fnv, loopv, genv>>

Init ==
    /\ deepseek_instance = 0
    /\ deepseek_service = 0
    /\ initialized = FALSE
    /\ model = None
    /\ model_loader = None
    /\ loader_model = None
    /\ encoder = None
    /\ decoder = None
    /\ current_mode = None
    /\ deepseek_available = FALSE
    /\ paddle = FALSE
    /\ enable_tesseract = TRUE
    /\ pc = "idle"
    /\ req = NoFile
    /\ mode = None
    /\ stream = FALSE
    /\ page_num = 0
    /\ all_text = <<>>
    /\ guarded = FALSE
    /\ ratio_info = None
    /\ ret_to = None
    /\ force_engine = None
    /\ service_arg = FALSE
    /\ engine = None
    /\ tried = <<>>
    /\ result = NoResult
    /\ lifecycle = "uninitialized"
    /\ load_attempts = 0
    /\ primary_invoked = {}
    /\ unsafe_seen = FALSE
    /\ primary_exc = None
    /\ retired = {}
    /\ cleanups = 0
    /\ call = None
    /\ ret = None
    /\ h_pc = [c \in Callers |-> "none"]
    /\ h_loc = [c \in Callers |-> NoLocals]
    /\ running = 0
    /\ dgen = NoDecoding
    /\ rgen = NoRendering
    /\ ldr = NoLoader

Next ==
    \/ acquire_service
    \/ initialize_service
    \/ initialize
    \/ \E ok \in BOOLEAN : load_model(ok)
    \/ cleanup
    \/ cleanup_resources
    \/ \E f \in Files, m \in Modes \cup {None}, s \in BOOLEAN : process_file(f, m, s)
    \/ \E ok \in BOOLEAN : render_page(ok)
    \/ primary_return
    \/ \E free \in FreeMemoryGB, out \in {"tokens", "raise"},
          est \in EstTextTokens, comp \in CompressedCounts :
            compress_page(free, out, est, comp)
    \/ \E ok \in BOOLEAN : decode_page(ok)
    \/ \E f \in Files, force \in Engines \cup {None}, svc \in BOOLEAN :
            process_document(f, force, svc)
    \/ route_document
    \/ \E ok \in BOOLEAN : direct_engine(ok)
    \/ \E ok \in BOOLEAN : chain_deepseek(ok)
    \/ \E ok \in BOOLEAN : chain_paddle(ok)
    \/ \E ok \in BOOLEAN : chain_tesseract(ok)

Spec == Init /\ [][Next]_vars

\* ----------------------------------------------------- the router on its own

\* HybridOCR.get_available_engines
get_available_engines ==
    {e \in {"deepseek"} : deepseek_available}
        \cup {e \in {"paddle"} : paddle}
        \cup {e \in {"tesseract"} : enable_tesseract}

\* HybridOCR(enable_paddle, enable_tesseract) built by itself: the memory probe
\* passed or not, PaddleOCR is loaded or not (never when enable_paddle is
\* False), Tesseract is enabled or not; no controller exists
InitRouter ==
    /\ deepseek_instance = 0
    /\ deepseek_service = 0
    /\ initialized = FALSE
    /\ model = None
    /\ model_loader = None
    /\ loader_model = None
    /\ encoder = None
    /\ decoder = None
    /\ current_mode = None
    /\ deepseek_available \in BOOLEAN
    /\ paddle \in BOOLEAN
    /\ enable_tesseract \in BOOLEAN
    /\ pc = "idle"
    /\ req = NoFile
    /\ mode = None
    /\ stream = FALSE
    /\ page_num = 0
    /\ all_text = <<>>
    /\ guarded = FALSE
    /\ ratio_info = None
    /\ ret_to = None
    /\ force_engine = None
    /\ service_arg = FALSE
    /\ engine = None
    /\ tried = <<>>
    /\ result = NoResult
    /\ lifecycle = "uninitialized"
    /\ load_attempts = 0
    /\ primary_invoked = {}
    /\ unsafe_seen = FALSE
    /\ primary_exc = None
    /\ retired = {}
    /\ cleanups = 0
    /\ call = None
    /\ ret = None
    /\ h_pc = [c \in Callers |-> "none"]
    /\ h_loc = [c \in Callers |-> NoLocals]
    /\ running = 0
    /\ dgen = NoDecoding
    /\ rgen = NoRendering
    /\ ldr = NoLoader

\* process_document called on that router
HybridOCR_process_document(f, force, svc) ==
    /\ pc = "idle"
    /\ deepseek_instance = 0
    /\ f.exists
    /\ f.size_mb = StreamThresholdMB
    /\ req' = f
    /\ force_engine' = force
    /\ service_arg' = svc
    /\ engine' = None
    /\ tried' = <<>>
    /\ result' = NoResult
    /\ ret_to' = "direct"
    /\ pc' = "router"
    /\ UNCHANGED <<glob, ctrl, fbv, mode, stream, page_num, all_text, guarded, ratio_info,
                   hist, fnv, loopv, genv>>

NextRouter ==
    \/ \E f \in Files, force \in Engines \cup {None}, svc \in BOOLEAN :
            HybridOCR_process_document(f, force, svc)
    \/ route_document
    \/ \E ok \in BOOLEAN : direct_engine(ok)
    \/ \E ok \in BOOLEAN : chain_deepseek(ok)
    \/ \E ok \in BOOLEAN : chain_paddle(ok)
    \/ \E ok \in BOOLEAN : chain_tesseract(ok)

SpecRouter == InitRouter /\ [][NextRouter]_vars

\* ------------------------------------------------------------ request layer

\* POST /ocr/process that does not validate mode
route_process_document_any_mode(handle_at_start, handle_at_call, output_format, m, outcome) ==
    IF ~handle_at_start
    THEN [status_code |-> 503, called |-> FALSE, body |-> [status |-> "error"]]
    ELSE IF output_format \notin {"text", "markdown", "html"}
    THEN [status_code |-> 400, called |-> FALSE, body |-> [status |-> "error"]]
    ELSE IF ~handle_at_call
    THEN [status_code |-> 500, called |-> FALSE, body |-> [status |-> "error"]]
    ELSE IF outcome.kind = "text"
    THEN [status_code |-> 200, called |-> TRUE,
          mode |-> IF m = "auto" THEN None ELSE m,
          body |-> [status |-> "success", text |-> outcome.text, length |-> Len(outcome.text)]]
    ELSE [status_code |-> IF outcome.exc = "FileNotFoundError" THEN 404 ELSE 500,
          called |-> TRUE, mode |-> IF m = "auto" THEN None ELSE m,
          body |-> [status |-> "error"]]

\* routes/deepseek.py process_document (POST /ocr/process): handle_at_start is
\* whether the global deepseek_service is set when the handler starts,
\* handle_at_call whether it still is after await file.read() (a cleanup
\* request may have run in between: AttributeError on None inside the try);
\* outcome is what process_file does when it is called. called tells whether
\* process_file was called, mode the mode it was given
route_process_document(handle_at_start, handle_at_call, output_format, m, outcome) ==
    IF ~handle_at_start
    THEN [status_code |-> 503, called |-> FALSE, body |-> [status |-> "error"]]
    ELSE IF output_format \notin {"text", "markdown", "html"}
    THEN [status_code |-> 400, called |-> FALSE, body |-> [status |-> "error"]]
    ELSE IF m # None /\ m \notin {"tiny", "small", "base", "auto"}
    THEN [status_code |-> 400, called |-> FALSE, body |-> [status |-> "error"]]
    ELSE IF ~handle_at_call
    THEN [status_code |-> 500, called |-> FALSE, body |-> [status |-> "error"]]
    ELSE IF outcome.kind = "text"
    THEN [status_code |-> 200, called |-> TRUE,
          mode |-> IF m = "auto" THEN None ELSE m,
          body |-> [status |-> "success", text |-> outcome.text, length |-> Len(outcome.text)]]
    ELSE [status_code |-> IF outcome.exc = "FileNotFoundError" THEN 404 ELSE 500,
          called |-> TRUE, mode |-> IF m = "auto" THEN None ELSE m,
          body |-> [status |-> "error"]]

\* ---------------------------------------------------------------- benchmark

\* benchmark_performance: test_sizes and the mode probed at each size
test_sizes == <<512, 640, 1024>>
size_mode(size) ==
    CASE size = 512 -> "tiny"
      [] size = 640 -> "small"
      [] size = 1024 -> "base"

\* one pass of the loop of benchmark_performance: a dummy image of the size is
\* encoded at the mode inside a MemoryGuard; ok is whether encode succeeds. Any
\* exception, also the AttributeError of self.encoder being None, is caught
\* and recorded for the mode
probe_mode(size, ok) ==
    IF encoder # None /\ ok
    THEN [works |-> TRUE, resolution |-> size, error |-> None]
    ELSE [works |-> FALSE, resolution |-> size,
          error |-> IF encoder = None THEN "AttributeError" ELSE "RuntimeError"]

\* LaptopDeepSeekOCR.benchmark_performance: outs tells for each mode whether
\* encode succeeds. probed lists the modes whose loop pass ran
benchmark_performance(outs) ==
    /\ pc = "idle"
    /\ deepseek_instance # 0
    /\ IF ~initialized
       THEN result' = [kind |-> "return", source |-> "benchmark_performance",
                       error |-> "Model not initialized", probed |-> <<>>,
                       results |-> <<>>]
       ELSE result' = [kind |-> "return", source |-> "benchmark_performance",
                       error |-> None,
                       probed |-> [i \in 1..Len(test_sizes) |-> size_mode(test_sizes[i])],
                       results |-> [m \in {size_mode(test_sizes[i]) : i \in 1..Len(test_sizes)} |->
                                       LET size == CHOOSE z \in {test_sizes[i] : i \in 1..Len(test_sizes)} :
                                                       size_mode(z) = m
                                       IN probe_mode(size, outs[m])]]
    /\ UNCHANGED <<glob, ctrl, fbv, pc, reqv, rtv, hist, fnv, loopv, genv>>

\* the controller's life with benchmark_performance called at any point of it
NextBench ==
    \/ acquire_service
    \/ initialize_service
    \/ initialize
    \/ \E ok \in BOOLEAN : load_model(ok)
    \/ cleanup
    \/ cleanup_resources
    \/ \E outs \in [Modes -> BOOLEAN] : benchmark_performance(outs)

SpecBench == Init /\ [][NextBench]_vars

\* ------------------------------------------------- pure functions, applied

\* the arguments auto_select_mode is applied to: every free memory of
\* 0..MaxFreeGB with complexities on both sides of the ceilings 600, 900, 2500
Complexities == {0, 300, 550, 599, 600, 899, 900, 1200, 2499, 2500, 3000}
AutoSelectCalls ==
    [fn : {"auto_select_mode"}, free_memory : 0..MaxFreeGB, document_complexity : Complexities]

\* the arguments monitor_compression_ratio is applied to: token counts on both
\* sides of 9.0, 9.4, 9.8 and 10.0 times the compressed count
MonitorCalls ==
    [fn : {"monitor_compression_ratio"},
     original_tokens : {100, 576, 577, 601, 602, 627, 628, 640, 641, 900, 901, 940, 941,
                        980, 981, 1000, 1001, 5000},
     compressed_tokens : {0, 64, 100},
     mode : Modes]

\* the arguments _select_engine is applied to: complexities on both sides of
\* 1000 and 2000, with and without a service handle
SelectEngineCalls ==
    [fn : {"_select_engine"}, doc_complexity : {300, 999, 1000, 1999, 2000, 2500},
     deepseek_service : BOOLEAN]

\* what the encode calls of compress_with_fallback do, with and without an
\* accelerator
EncodeOutcomes == {"tokens", "oom", "error"}
CompressCalls ==
    [fn : {"compress_with_fallback"}, cuda : BOOLEAN,
     gpu_out : EncodeOutcomes, cpu_out : EncodeOutcomes]

\* the images given to encode_with_chunking: what encode does at the requested
\* mode (first) and at tiny (retry), and the accelerator memory allocated and
\* reserved after the image was encoded
MemoryUsages == {[allocated |-> 9, reserved |-> 10], [allocated |-> 10, reserved |-> 10]}
ChunkImages == [first : EncodeOutcomes, retry : {"tokens", "oom"}, usage : MemoryUsages]
ImageLists == UNION {[1..n -> ChunkImages] : n \in 0..MaxImages}
ChunkingCalls ==
    [fn : {"encode_with_chunking"}, images : ImageLists, mode : Modes \cup {None}]

\* the arguments decode is applied to: the four formats of the table and one
\* outside it, both paths, generation succeeding or not
OutputFormats == DOMAIN format_prompts \cup {"xml"}
DecodeCalls ==
    [fn : {"decode"}, output_format : OutputFormats, stream : BOOLEAN, generate_ok : BOOLEAN]

\* "with MemoryGuard():" applied: one guard, or the two nested guards of the
\* process route and the controller, on a cache that holds releasable blocks
\* or not, around a body that raises or not
GuardCalls ==
    [fn : {"MemoryGuard"}, depth : 1..MaxGuards, cuda : BOOLEAN,
     cache : {c \in CacheStates : CacheOk(c)},
     body : [cached : {0, 1}, raises : BOOLEAN]]

\* the arguments check_and_clear is applied to: usages below, at and above
\* the thresholds
Thresholds == {50, 90, 100}
CheckAndClearCalls ==
    [fn : {"check_and_clear"}, cuda : BOOLEAN, threshold : Thresholds,
     cache : {c \in CacheStates : CacheOk(c)}]

\* one page processed in state ready at a forced mode: what encode does on
\* the accelerator and on the host, inside process_file's try or not
PageCalls ==
    [fn : {"process_page"}, cuda : BOOLEAN, mode : Modes,
     gpu_out : EncodeOutcomes, cpu_out : EncodeOutcomes, in_try : BOOLEAN]

\* the images and targets _resize_to_target is applied to: the mode
\* resolutions as targets; images smaller than, equal to and larger than the
\* targets, square, wide and tall, down to one pixel on a side
ImageSides == {1, 100, 512, 640, 641, 1024, 2048}
ImageSizes == [w : ImageSides, h : ImageSides]
TargetSizes == {[w |-> n, h |-> n] : n \in {512, 640, 1024, 1280}}
ResizeCalls == [fn : {"_resize_to_target"}, original : ImageSizes, target : TargetSizes]

\* the requests POST /ocr/process is applied to: with and without a handle,
\* formats and modes inside and outside the accepted sets, process_file
\* returning a text (empty or not) or raising. The file given to process_file
\* is the temporary file the handler has just written, so process_file's own
\* FileNotFoundError is not among the outcomes
ProcessOutcomes ==
    {[kind |-> "text", text |-> <<>>, exc |-> None],
     [kind |-> "text", text |-> <<"a", "b">>, exc |-> None],
     [kind |-> "raise", text |-> <<>>, exc |-> "Exception"]}
RouteCalls ==
    [fn : {"POST /ocr/process"}, handle_at_start : BOOLEAN, handle_at_call : BOOLEAN,
     output_format : OutputFormats, mode : Modes \cup {None, "auto", "large"},
     outcome : ProcessOutcomes]

\* compress_with_fallback with the devices: a model on the accelerator or on
\* the host (on the accelerator only when there is one), memory critical or
\* not at either encode, an out-of-memory error only from an accelerator
DeviceCalls ==
    {c \in [fn : {"compress_with_fallback_on"}, cuda : BOOLEAN,
            original_device : {"cuda", "cpu"},
            critical_first : BOOLEAN, gpu_out : EncodeOutcomes,
            critical_retry : BOOLEAN, cpu_out : {"tokens", "error"}] :
        /\ c.original_device = "cuda" => c.cuda
        /\ ~c.cuda => (~c.critical_first /\ ~c.critical_retry /\ c.gpu_out # "oom")}

\* the texts the model reads from the tokens: up to MaxTextLen characters,
\* "A" (65) and "e" with an acute accent (233)
Chars == {65, 233}
Texts == UNION {[1..n -> Chars] : n \in 0..MaxTextLen}
TextCalls == [fn : {"decode_text"}, text : Texts, output_format : OutputFormats]

FnCalls ==
    TextCalls \cup DeviceCalls \cup RouteCalls \cup ResizeCalls \cup PageCalls \cup GuardCalls \cup CheckAndClearCalls \cup
    AutoSelectCalls \cup MonitorCalls \cup SelectEngineCalls \cup CompressCalls
    \cup ChunkingCalls \cup DecodeCalls

\* the controller after a successful initialize: the encoder exists; the
\* router's probes of the accelerator and of paddleocr went either way
InitFn ==
    /\ deepseek_instance = 1
    /\ deepseek_service = 1
    /\ initialized = TRUE
    /\ model = "model"
    /\ model_loader = "loader"
    /\ loader_model = "model"
    /\ encoder = "encoder"
    /\ decoder = "decoder"
    /\ current_mode = "tiny"
    /\ deepseek_available \in ProbeOutcomes
    /\ paddle \in BOOLEAN
    /\ enable_tesseract = TRUE
    /\ pc = "idle"
    /\ req = NoFile
    /\ mode = None
    /\ stream = FALSE
    /\ page_num = 0
    /\ all_text = <<>>
    /\ guarded = FALSE
    /\ ratio_info = None
    /\ ret_to = None
    /\ force_engine = None
    /\ service_arg = FALSE
    /\ engine = None
    /\ tried = <<>>
    /\ result = NoResult
    /\ lifecycle = "ready"
    /\ load_attempts = 1
    /\ primary_invoked = {}
    /\ unsafe_seen = FALSE
    /\ primary_exc = None
    /\ retired = {}
    /\ cleanups = 0
    /\ call \in FnCalls
    /\ ret = None
    /\ h_pc = [c \in Callers |-> "none"]
    /\ h_loc = [c \in Callers |-> NoLocals]
    /\ running = 0
    /\ dgen = NoDecoding
    /\ rgen = NoRendering
    /\ ldr = NoLoader

\* LaptopDeepEncoder.auto_select_mode applied to the drawn arguments: the
\* selected mode is returned and kept in current_mode
apply_auto_select_mode ==
    /\ call.fn = "auto_select_mode"
    /\ pc = "idle"
    /\ pc' = "returned"
    /\ ret' = auto_select_mode(call.free_memory, call.document_complexity)
    /\ current_mode' = ret'
    /\ UNCHANGED <<glob, initialized, model, model_loader, loader_model, encoder, decoder,
                   fbv, reqv, rtv, result, hist, call, loopv, genv>>

\* a function is applied once: pc goes from "idle" to "returned" and ret holds
\* what it returned; no other variable changes
fn_frame == <<glob, ctrl, fbv, reqv, rtv, result, hist, call, loopv, genv>>

\* AdaptiveCompressor.monitor_compression_ratio applied to the drawn arguments
apply_monitor_compression_ratio ==
    /\ call.fn = "monitor_compression_ratio"
    /\ pc = "idle"
    /\ pc' = "returned"
    /\ ret' = monitor_compression_ratio(call.original_tokens, call.compressed_tokens, call.mode)
    /\ UNCHANGED fn_frame

\* HybridOCR._select_engine applied to the drawn arguments
apply_select_engine ==
    /\ call.fn = "_select_engine"
    /\ pc = "idle"
    /\ pc' = "returned"
    /\ ret' = select_engine(call.doc_complexity, call.deepseek_service)
    /\ UNCHANGED fn_frame

\* AdaptiveCompressor.compress_with_fallback applied to the drawn outcomes
apply_compress_with_fallback ==
    /\ call.fn = "compress_with_fallback"
    /\ pc = "idle"
    /\ pc' = "returned"
    /\ ret' = compress_with_fallback(call.cuda, call.gpu_out, call.cpu_out)
    /\ UNCHANGED fn_frame

\* LaptopDeepEncoder.encode_with_chunking applied to the drawn images
apply_encode_with_chunking ==
    /\ call.fn = "encode_with_chunking"
    /\ pc = "idle"
    /\ pc' = "returned"
    /\ ret' = encode_with_chunking(call.images, call.mode)
    /\ UNCHANGED fn_frame

\* StreamingDecoder.decode applied to the drawn format and path
apply_decode ==
    /\ call.fn = "decode"
    /\ pc = "idle"
    /\ pc' = "returned"
    /\ ret' = decode(call.output_format, call.stream, call.generate_ok)
    /\ UNCHANGED fn_frame

\* the with statement applied to the drawn guards, cache and body
apply_MemoryGuard ==
    /\ call.fn = "MemoryGuard"
    /\ pc = "idle"
    /\ pc' = "returned"
    /\ ret' = with_MemoryGuard(call.depth, call.cuda, call.cache, call.body)
    /\ UNCHANGED fn_frame

\* MemoryGuard.check_and_clear applied to the drawn cache, and once more to
\* the cache it left
apply_check_and_clear ==
    /\ call.fn = "check_and_clear"
    /\ pc = "idle"
    /\ pc' = "returned"
    /\ ret' = LET once == check_and_clear(call.cuda, call.threshold, call.cache)
              IN [once |-> once,
                  twice |-> check_and_clear(call.cuda, call.threshold, once.cache)]
    /\ UNCHANGED fn_frame

\* one page of _process_with_deepseek applied to the drawn outcomes
apply_process_page ==
    /\ call.fn = "process_page"
    /\ pc = "idle"
    /\ pc' = "returned"
    /\ ret' = process_page(call.cuda, call.mode, call.gpu_out, call.cpu_out, call.in_try)
    /\ UNCHANGED fn_frame

\* EfficientRenderer._resize_to_target applied to the drawn image and target
apply_resize_to_target ==
    /\ call.fn = "_resize_to_target"
    /\ pc = "idle"
    /\ pc' = "returned"
    /\ ret' = resize_to_target(call.original, call.target)
    /\ UNCHANGED fn_frame

\* POST /ocr/process applied to the drawn request
apply_route_process_document ==
    /\ call.fn = "POST /ocr/process"
    /\ pc = "idle"
    /\ pc' = "returned"
    /\ ret' = route_process_document(call.handle_at_start, call.handle_at_call,
                                     call.output_format, call.mode, call.outcome)
    /\ UNCHANGED fn_frame

\* compress_with_fallback applied with the drawn devices and outcomes
apply_compress_with_fallback_on ==
    /\ call.fn = "compress_with_fallback_on"
    /\ pc = "idle"
    /\ pc' = "returned"
    /\ ret' = compress_with_fallback_on(call.cuda, call.original_device, call.critical_first,
                                        call.gpu_out, call.critical_retry, call.cpu_out)
    /\ UNCHANGED fn_frame

\* decode applied to the same tokens with and without stream
apply_decode_text ==
    /\ call.fn = "decode_text"
    /\ pc = "idle"
    /\ pc' = "returned"
    /\ ret' = [streamed |-> decode_text(call.text, call.output_format, TRUE),
               batch |-> decode_text(call.text, call.output_format, FALSE)]
    /\ UNCHANGED fn_frame

NextFn ==
    \/ apply_auto_select_mode
    \/ apply_monitor_compression_ratio
    \/ apply_select_engine
    \/ apply_compress_with_fallback
    \/ apply_encode_with_chunking
    \/ apply_decode
    \/ apply_MemoryGuard
    \/ apply_check_and_clear
    \/ apply_process_page
    \/ apply_resize_to_target
    \/ apply_route_process_document
    \/ apply_compress_with_fallback_on
    \/ apply_decode_text

SpecFn == InitFn /\ [][NextFn]_vars

\* ------------------------------------------- request handlers, concurrent
\* The handlers of routes/deepseek.py are coroutines of one event loop: a
\* handler runs on the loop's thread from its start, or from the await it was
\* suspended at, to its next await or its end, and another handler is started
\* or resumed only when the thread is free (running = 0). POST /ocr/process
\* has one await, file.read(); the calls of process_file, initialize and
\* cleanup are plain calls.

\* what does not change in a step of a handler
loop_frame == <<deepseek_instance, fbv, pc, reqv, rtv, result, load_attempts, primary_invoked,
                unsafe_seen, primary_exc, retired, cleanups, fnv, genv>>

Suspend(c, at) ==
    /\ h_pc' = [h_pc EXCEPT ![c] = at]
    /\ running' = 0

\* the primary pipeline of handler c raises: process_file's try hands over to
\* the router, the streaming path lets the exception out (HTTP 500)
HandlerRaise(c) ==
    IF h_loc[c].guarded
    THEN /\ h_pc' = [h_pc EXCEPT ![c] = "router"]
         /\ UNCHANGED running
    ELSE Suspend(c, "done")

\* POST /ocr/process, from its start to await file.read(): 503 without a
\* service
request_process(c) ==
    /\ running = 0
    /\ h_pc[c] = "none"
    /\ Suspend(c, IF deepseek_service = 0 THEN "done" ELSE "await_read")
    /\ UNCHANGED <<deepseek_service, ctrl, lifecycle, h_loc, loop_frame>>

\* POST /ocr/process resumed by a thread of its own, as a handler that is
\* not a coroutine would be
resume_process_in_thread(c, big, n) ==
    /\ h_pc[c] = "await_read"
    /\ IF deepseek_service = 0
       THEN /\ Suspend(c, "done")
            /\ UNCHANGED h_loc
       ELSE /\ running' = c
            /\ h_pc' = [h_pc EXCEPT ![c] =
                           IF big \/ (initialized /\ model # None) THEN "render" ELSE "router"]
            /\ h_loc' = [h_loc EXCEPT ![c] =
                           [pages_left |-> n, guarded |-> ~big /\ initialized /\ model # None]]
    /\ UNCHANGED <<deepseek_service, ctrl, lifecycle, loop_frame>>

\* POST /ocr/process resumed after file.read(): deepseek_service.process_file
\* is called on the route's global as it is now (None after a cleanup request:
\* AttributeError, HTTP 500); big is file_size_mb > 10, n the pages of the file
resume_process(c, big, n) ==
    /\ running = 0
    /\ h_pc[c] = "await_read"
    /\ IF deepseek_service = 0
       THEN /\ Suspend(c, "done")
            /\ UNCHANGED h_loc
       ELSE /\ running' = c
            /\ h_pc' = [h_pc EXCEPT ![c] =
                           IF big \/ (initialized /\ model # None) THEN "render" ELSE "router"]
            /\ h_loc' = [h_loc EXCEPT ![c] =
                           [pages_left |-> n, guarded |-> ~big /\ initialized /\ model # None]]
    /\ UNCHANGED <<deepseek_service, ctrl, lifecycle, loop_frame>>

\* _process_with_deepseek of handler c at the renderer: the next page, or the
\* end of the loop
h_render(c, ok) ==
    /\ running = c
    /\ h_pc[c] = "render"
    /\ IF h_loc[c].pages_left = 0
       THEN Suspend(c, "done")
       ELSE IF ok
       THEN /\ h_pc' = [h_pc EXCEPT ![c] = "encode"]
            /\ UNCHANGED running
       ELSE HandlerRaise(c)
    /\ UNCHANGED <<deepseek_service, ctrl, lifecycle, h_loc, loop_frame>>

\* _process_with_deepseek of handler c in compress_with_fallback: the page is
\* encoded against the model; out is "tokens", "unsafe" (tokens with an unsafe
\* ratio) or "raise"
h_encode(c, out) ==
    /\ running = c
    /\ h_pc[c] = "encode"
    /\ IF encoder = None \/ out = "raise"
       THEN HandlerRaise(c)
       ELSE /\ h_pc' = [h_pc EXCEPT ![c] = IF out = "unsafe" THEN "router" ELSE "decode"]
            /\ UNCHANGED running
    /\ UNCHANGED <<deepseek_service, ctrl, lifecycle, h_loc, loop_frame>>

\* _process_with_deepseek of handler c in decode: the page's buffer is decoded
\* against the model
h_decode(c, ok) ==
    /\ running = c
    /\ h_pc[c] = "decode"
    /\ IF ok
       THEN /\ h_pc' = [h_pc EXCEPT ![c] = "render"]
            /\ h_loc' = [h_loc EXCEPT ![c].pages_left = @ - 1]
            /\ UNCHANGED running
       ELSE /\ HandlerRaise(c)
            /\ UNCHANGED h_loc
    /\ UNCHANGED <<deepseek_service, ctrl, lifecycle, loop_frame>>

\* the router call of handler c's process_file, to the end of the handler
h_router(c) ==
    /\ running = c
    /\ h_pc[c] = "router"
    /\ Suspend(c, "done")
    /\ UNCHANGED <<deepseek_service, ctrl, lifecycle, h_loc, loop_frame>>

\* POST /ocr/cleanup starts; it has no await
request_cleanup(c) ==
    /\ running = 0
    /\ h_pc[c] = "none"
    /\ running' = c
    /\ h_pc' = [h_pc EXCEPT ![c] = "cleanup"]
    /\ UNCHANGED <<deepseek_service, ctrl, lifecycle, h_loc, loop_frame>>

\* POST /ocr/init starts; it has no await
request_initialize(c) ==
    /\ running = 0
    /\ h_pc[c] = "none"
    /\ running' = c
    /\ h_pc' = [h_pc EXCEPT ![c] = "init"]
    /\ UNCHANGED <<deepseek_service, ctrl, lifecycle, h_loc, loop_frame>>

\* POST /ocr/cleanup: cleanup() on the route's handle, which is then dropped
h_cleanup(c) ==
    /\ running = c
    /\ h_pc[c] = "cleanup"
    /\ IF deepseek_service # 0
       THEN /\ cleanup_body
            /\ lifecycle' = "unloaded"
            /\ deepseek_service' = 0
       ELSE UNCHANGED <<ctrl, lifecycle, deepseek_service>>
    /\ Suspend(c, "done")
    /\ UNCHANGED <<h_loc, loop_frame>>

\* POST /ocr/init: the singleton is fetched and initialized; ok is whether
\* the model loads
h_initialize(c, ok) ==
    /\ running = c
    /\ h_pc[c] = "init"
    /\ deepseek_service' = deepseek_instance
    /\ model_loader' = "loader"
    /\ IF ok
       THEN /\ loader_model' = "model"
            /\ model' = "model"
            /\ encoder' = "encoder"
            /\ decoder' = "decoder"
            /\ current_mode' = "tiny"
            /\ initialized' = TRUE
            /\ lifecycle' = "ready"
       ELSE /\ loader_model' = None
            /\ initialized' = FALSE
            /\ lifecycle' = "degraded"
            /\ UNCHANGED <<model, encoder, decoder, current_mode>>
    /\ Suspend(c, "done")
    /\ UNCHANGED <<h_loc, loop_frame>>

\* the response of handler c is sent; the caller may send another request
respond(c) ==
    /\ running = 0
    /\ h_pc[c] = "done"
    /\ h_pc' = [h_pc EXCEPT ![c] = "none"]
    /\ h_loc' = [h_loc EXCEPT ![c] = NoLocals]
    /\ UNCHANGED <<running, deepseek_service, ctrl, lifecycle, loop_frame>>

\* the service after a successful POST /ocr/init, no request in flight
InitLoop ==
    /\ deepseek_instance = 1
    /\ deepseek_service = 1
    /\ initialized = TRUE
    /\ model = "model"
    /\ model_loader = "loader"
    /\ loader_model = "model"
    /\ encoder = "encoder"
    /\ decoder = "decoder"
    /\ current_mode = "tiny"
    /\ deepseek_available = FALSE
    /\ paddle = FALSE
    /\ enable_tesseract = TRUE
    /\ pc = "idle"
    /\ req = NoFile
    /\ mode = None
    /\ stream = FALSE
    /\ page_num = 0
    /\ all_text = <<>>
    /\ guarded = FALSE
    /\ ratio_info = None
    /\ ret_to = None
    /\ force_engine = None
    /\ service_arg = FALSE
    /\ engine = None
    /\ tried = <<>>
    /\ result = NoResult
    /\ lifecycle = "ready"
    /\ load_attempts = 1
    /\ primary_invoked = {}
    /\ unsafe_seen = FALSE
    /\ primary_exc = None
    /\ retired = {}
    /\ cleanups = 0
    /\ call = None
    /\ ret = None
    /\ h_pc = [c \in Callers |-> "none"]
    /\ h_loc = [c \in Callers |-> NoLocals]
    /\ running = 0
    /\ dgen = NoDecoding
    /\ rgen = NoRendering
    /\ ldr = NoLoader

NextLoop ==
    \E c \in Callers :
        \/ request_process(c)
        \/ \E big \in BOOLEAN, n \in 1..MaxPages : resume_process(c, big, n)
        \/ \E ok \in BOOLEAN : h_render(c, ok)
        \/ \E out \in {"tokens", "unsafe", "raise"} : h_encode(c, out)
        \/ \E ok \in BOOLEAN : h_decode(c, ok)
        \/ h_router(c)
        \/ request_cleanup(c)
        \/ request_initialize(c)
        \/ h_cleanup(c)
        \/ \E ok \in BOOLEAN : h_initialize(c, ok)
        \/ respond(c)

SpecLoop == InitLoop /\ [][NextLoop]_vars

\* ---------------------------------------------------------------- generators
\* decode_streaming and render_pdf_streaming are generator functions: a call
\* only creates the generator, the body runs from its start, or from the yield
\* it is suspended at, to the next yield when the consumer asks for the next
\* item, and close() (or dropping the generator) ends it at the yield it is
\* suspended at with GeneratorExit, which "except Exception" does not catch.

\* the state the generators are driven from: the controller after a successful
\* initialize, no call in flight, no generator created
InitGen ==
    /\ deepseek_instance = 1
    /\ deepseek_service = 1
    /\ initialized = TRUE
    /\ model = "model"
    /\ model_loader = "loader"
    /\ loader_model = "model"
    /\ encoder = "encoder"
    /\ decoder = "decoder"
    /\ current_mode = "tiny"
    /\ deepseek_available = TRUE
    /\ paddle = TRUE
    /\ enable_tesseract = TRUE
    /\ pc = "idle"
    /\ req = NoFile
    /\ mode = None
    /\ stream = FALSE
    /\ page_num = 0
    /\ all_text = <<>>
    /\ guarded = FALSE
    /\ ratio_info = None
    /\ ret_to = None
    /\ force_engine = None
    /\ service_arg = FALSE
    /\ engine = None
    /\ tried = <<>>
    /\ result = NoResult
    /\ lifecycle = "ready"
    /\ load_attempts = 1
    /\ primary_invoked = {}
    /\ unsafe_seen = FALSE
    /\ primary_exc = None
    /\ retired = {}
    /\ cleanups = 0
    /\ call = [fn |-> "none"]
    /\ ret = None
    /\ h_pc = [c \in Callers |-> "none"]
    /\ h_loc = [c \in Callers |-> NoLocals]
    /\ running = 0
    /\ dgen = NoDecoding
    /\ rgen = NoRendering
    /\ ldr = NoLoader

\* a generator changes nothing but its own state
gen_frame == <<glob, ctrl, fbv, pc, reqv, rtv, result, hist, fnv, loopv>>

\* the numbers of units the model generates for a page: on both sides of the
\* multiples of CacheClearEvery
UnitCounts ==
    {0, 1, CacheClearEvery - 1, CacheClearEvery, CacheClearEvery + 1,
     2 * CacheClearEvery - 1, 2 * CacheClearEvery, MaxUnits}

\* decoder.decode_streaming(...) is called: the generator is created and no
\* line of the body has run. n is the number of units the model will generate,
\* cuda is torch.cuda.is_available()
decode_streaming_call(n, cuda) ==
    /\ dgen.state \in {"none", "done", "closed", "raised"}
    /\ dgen' = [state |-> "created", n |-> n, cuda |-> cuda, yielded |-> 0, clears |-> 0]
    /\ UNCHANGED <<gen_frame, rgen, ldr>>

\* next(generator) that clears the cache before it yields the 100th unit
\* instead of after the consumer has come back for the next one
decode_streaming_next_eager(ok) ==
    /\ dgen.state \in {"created", "suspended"}
    /\ IF dgen.state = "created" /\ ~ok
       THEN dgen' = [dgen EXCEPT !.state = "raised"]
       ELSE IF dgen.yielded < dgen.n
            THEN dgen' = [dgen EXCEPT !.state = "suspended", !.yielded = @ + 1,
                                      !.clears = IF (dgen.yielded + 1) % CacheClearEvery = 0
                                                    /\ dgen.cuda
                                                 THEN @ + 1 ELSE @]
            ELSE dgen' = [dgen EXCEPT !.state = "done"]
    /\ UNCHANGED <<gen_frame, rgen, ldr>>

\* next(generator): the first one builds the prompt and starts token
\* generation (ok is whether _generate_tokens_iteratively's _decode_batch
\* succeeds; its exception is logged and raised again); a later one resumes
\* after the yield, clears the cache if len(generated_tokens) % 100 == 0 and an
\* accelerator is present, and goes on to the next token: the unit is appended
\* and yielded, or the loop is over and the generator returns
decode_streaming_next(ok) ==
    /\ dgen.state \in {"created", "suspended"}
    /\ LET cleared == IF dgen.state = "suspended" /\ dgen.yielded % CacheClearEvery = 0
                         /\ dgen.cuda
                      THEN dgen.clears + 1
                      ELSE dgen.clears
       IN IF dgen.state = "created" /\ ~ok
          THEN dgen' = [dgen EXCEPT !.state = "raised"]
          ELSE IF dgen.yielded < dgen.n
               THEN dgen' = [dgen EXCEPT !.state = "suspended", !.yielded = @ + 1,
                                         !.clears = cleared]
               ELSE dgen' = [dgen EXCEPT !.state = "done", !.clears = cleared]
    /\ UNCHANGED <<gen_frame, rgen, ldr>>

\* generator.close(), or the consumer drops the generator: GeneratorExit at the
\* yield; no line after the yield runs
decode_streaming_close ==
    /\ dgen.state \in {"created", "suspended"}
    /\ dgen' = [dgen EXCEPT !.state = "closed"]
    /\ UNCHANGED <<gen_frame, rgen, ldr>>

NextDecode ==
    \/ \E n \in UnitCounts, cuda \in BOOLEAN : decode_streaming_call(n, cuda)
    \/ \E ok \in BOOLEAN : decode_streaming_next(ok)
    \/ decode_streaming_close

SpecDecode == InitGen /\ [][NextDecode]_vars

\* the max_pages arguments of render_pdf_streaming: omitted (None), or an int
\* below, at and above the number of pages
MaxPagesArgs ==
    {[given |-> FALSE, value |-> 0]}
    \cup [given : {TRUE}, value : {-1, 0, 1, MaxPages + 1}]

\* pages_to_process = min(total_pages, max_pages) if max_pages else total_pages:
\* None and 0 are both false
pages_to_process(total_pages, max_pages) ==
    IF max_pages.given /\ max_pages.value # 0
    THEN IF total_pages <= max_pages.value THEN total_pages ELSE max_pages.value
    ELSE total_pages

\* renderer.render_pdf_streaming(...) is called: the generator is created and
\* no line of the body has run, not even the test that the file exists
render_pdf_streaming_call(exists, total_pages, max_pages) ==
    /\ rgen.state \in {"none", "done", "closed", "raised"}
    /\ rgen' = [state |-> "created", exists |-> exists, total_pages |-> total_pages,
                max_pages |-> max_pages, page_num |-> 0, rendered |-> 0,
                yielded |-> <<>>, doc_open |-> FALSE]
    /\ UNCHANGED <<gen_frame, dgen, ldr>>

\* next(generator): the first one tests that the file exists (FileNotFoundError
\* otherwise), opens the document and computes pages_to_process; every one
\* runs the for loop to its next yield: the page page_num is rendered (ok is
\* whether that succeeds; the exception is logged and raised again, the
\* document stays open) and yielded with its index, or the range is exhausted,
\* the document is closed and the generator returns
render_pdf_streaming_next(ok) ==
    /\ rgen.state \in {"created", "suspended"}
    /\ IF rgen.state = "created" /\ ~rgen.exists
       THEN rgen' = [rgen EXCEPT !.state = "raised"]
       ELSE IF rgen.page_num < pages_to_process(rgen.total_pages, rgen.max_pages)
       THEN IF ok
            THEN rgen' = [rgen EXCEPT !.state = "suspended", !.doc_open = TRUE,
                                      !.rendered = @ + 1,
                                      !.yielded = Append(@, rgen.page_num),
                                      !.page_num = @ + 1]
            ELSE rgen' = [rgen EXCEPT !.state = "raised", !.doc_open = TRUE]
       ELSE rgen' = [rgen EXCEPT !.state = "done", !.doc_open = FALSE]
    /\ UNCHANGED <<gen_frame, dgen, ldr>>

\* generator.close(), or the consumer drops the generator: GeneratorExit at the
\* yield, which "except Exception" does not catch; doc.close() is not reached
render_pdf_streaming_close ==
    /\ rgen.state \in {"created", "suspended"}
    /\ rgen' = [rgen EXCEPT !.state = "closed"]
    /\ UNCHANGED <<gen_frame, dgen, ldr>>

NextRender ==
    \/ \E exists \in BOOLEAN, total_pages \in 0..MaxPages, max_pages \in MaxPagesArgs :
            render_pdf_streaming_call(exists, total_pages, max_pages)
    \/ \E ok \in BOOLEAN : render_pdf_streaming_next(ok)
    \/ render_pdf_streaming_close

SpecRender == InitGen /\ [][NextRender]_vars

\* ------------------------------------------------------------ model loader

\* OptimizedModelLoader(use_quantization=...) is constructed: self.model is
\* None; cuda is torch.cuda.is_available()
loader_construct(use_quantization, cuda) ==
    /\ ldr.ops = 0
    /\ ldr.last.op = "none"
    /\ ldr' = [NoLoader EXCEPT !.use_quantization = use_quantization, !.cuda = cuda,
                               !.last = [op |-> "__init__", kind |-> "return", status |-> "none"]]
    /\ UNCHANGED <<gen_frame, dgen, rgen>>

\* the ways load_model ends: it returns the model; from_pretrained raises,
\* before self.model is assigned; or from_pretrained has returned and been
\* assigned to self.model and .to(torch.bfloat16).cuda() raises, which is
\* reached only without quantization on a machine with an accelerator. The
\* except clause logs and raises again
LoadOutcomes(l) ==
    {"ok", "from_pretrained"} \cup
    (IF ~l.use_quantization /\ l.cuda THEN {"to_cuda"} ELSE {})

\* OptimizedModelLoader.load_model
loader_load_model(out) ==
    /\ ldr.last.op # "none"
    /\ ldr.ops < MaxLoaderOps
    /\ out \in LoadOutcomes(ldr)
    /\ ldr' = [ldr EXCEPT !.ops = @ + 1,
                          !.model = IF out = "from_pretrained" THEN @ ELSE "model",
                          !.last_load = IF out = "ok" THEN "ok" ELSE "failed",
                          !.last = [op |-> "load_model",
                                    kind |-> IF out = "ok" THEN "return" ELSE "raise",
                                    status |-> "none"]]
    /\ UNCHANGED <<gen_frame, dgen, rgen>>

\* OptimizedModelLoader.unload_model: with a model, it is dropped and the
\* cache emptied; without one nothing is done
loader_unload_model ==
    /\ ldr.last.op # "none"
    /\ ldr.ops < MaxLoaderOps
    /\ ldr' = [ldr EXCEPT !.ops = @ + 1, !.model = None, !.last_load = "none",
                          !.last = [op |-> "unload_model", kind |-> "return",
                                    status |-> IF ldr.model = None THEN "nothing"
                                               ELSE "released"]]
    /\ UNCHANGED <<gen_frame, dgen, rgen>>

\* OptimizedModelLoader.get_model_info
loader_get_model_info ==
    /\ ldr.last.op # "none"
    /\ ldr.ops < MaxLoaderOps
    /\ ldr' = [ldr EXCEPT !.ops = @ + 1,
                          !.last = [op |-> "get_model_info", kind |-> "return",
                                    status |-> IF ldr.model = None THEN "not_loaded"
                                               ELSE "model_name"]]
    /\ UNCHANGED <<gen_frame, dgen, rgen>>

NextLoader ==
    \/ \E use_quantization \in BOOLEAN, cuda \in BOOLEAN : loader_construct(use_quantization, cuda)
    \/ \E out \in {"ok", "from_pretrained", "to_cuda"} : loader_load_model(out)
    \/ loader_unload_model
    \/ loader_get_model_info

SpecLoader == InitGen /\ [][NextLoader]_vars

\* ------------------------------------------------------------------ claims

RouterPcs == {"router", "direct", "chain_deepseek", "chain_paddle", "chain_tesseract"}
Range(q) == {q[i] : i \in 1..Len(q)}

\* C1: once a page of the running process_file call had a compression ratio
\* above 10.0, the call never is at the renderer, the compressor or the decoder
\* again (no later page is encoded or decoded), and the text it returns is the
\* router's: it holds no page decoded by the primary pipeline.
C1_UnsafeRatioAbandonsPrimary ==
    unsafe_seen =>
        /\ pc \in RouterPcs \cup {"idle"}
        /\ result.kind = "text" => (result.source = "router" /\ result.pages = <<>>)

\* a two-page document whose first page was decoded and whose second page was
\* unsafe has been answered by the router
C1_Witness ==
    /\ unsafe_seen
    /\ pc = "idle"
    /\ Len(all_text) > 0
    /\ result.kind = "text"
    /\ result.source = "router"

\* C2: when the engine process_document selected returns a non-success result,
\* the full chain deepseek -> paddle -> tesseract is run: an error result is the
\* aggregate 'all engines failed' one and every available engine was tried.
C2_FailureRunsFullChain ==
    (pc = "idle" /\ result.source = "router" /\ result.status = "error") =>
        /\ result.engine = "none"
        /\ paddle => "paddle" \in Range(tried)
        /\ enable_tesseract => "tesseract" \in Range(tried)

\* C3: in state ready an exception of the primary pipeline never leaves
\* process_file: the call ends with what the router produced.
C3_PrimaryExceptionCaught ==
    (lifecycle = "ready" /\ primary_exc # None /\ pc = "idle") =>
        /\ result.source = "router"
        /\ result.exc # primary_exc

\* C4: in state degraded process_file never invokes the renderer, the encoder,
\* the compressor or the decoder.
C4_DegradedSkipsPrimary ==
    lifecycle = "degraded" => primary_invoked = {}

\* C5: process_file returns text only when an engine reported success.
C5_TextOnlyOnSuccess ==
    (pc = "idle" /\ result.kind = "text") => result.status = "success"

\* C6: the controller reports itself initialized only while it holds a model,
\* an encoder and a decoder, and after cleanup (unloaded) it no longer does.
C6_ReadyOnlyWhileLoaded ==
    /\ initialized => (model # None /\ encoder # None /\ decoder # None)
    /\ lifecycle = "unloaded" => ~initialized

\* C7: every cleanup() call (the steps that count one more cleanup, made by
\* cleanup and by the cleanup route), from any lifecycle state, ends without raising
\* with the model, the encoder and the decoder released and the loader's model
\* unloaded; a cleanup() that follows another one changes no field of the
\* controller.
C7_CleanupIdempotent ==
    [][(cleanups' = cleanups + 1) =>
          /\ model' = None
          /\ encoder' = None
          /\ decoder' = None
          /\ loader_model' = None
          /\ result'.kind # "raise"
          /\ cleanups >= 1 => UNCHANGED ctrl]_vars

\* cleanup() ran twice on a controller that had been ready
C7_Witness ==
    /\ cleanups = 2
    /\ lifecycle = "unloaded"
    /\ initialized
    /\ model = None

\* C8: a step of initialize in which the load fails (the loader holds no model
\* afterwards) is the only load attempt of that initialize call and ends it:
\* initialize returns False, raises nothing, and the controller is degraded
\* (not initialized).
C8_FailedLoadDegradesOnce ==
    [][(pc = "initializing" /\ loader_model' = None) =>
          /\ load_attempts' = 1
          /\ pc' = "idle"
          /\ result'.kind = "return"
          /\ result'.status = "False"
          /\ ~initialized'
          /\ lifecycle' = "degraded"]_vars

\* initialize has returned False after one failed load
C8_Witness ==
    /\ pc = "idle"
    /\ lifecycle = "degraded"
    /\ load_attempts = 1
    /\ result.kind = "return"
    /\ result.status = "False"
    /\ ~initialized

\* C9: the controller the request layer holds is never one on which the
\* cleanup route has run: cleanup destroys it and a later initialize request
\* gets a new one.
C9_CleanupDestroysController ==
    deepseek_service \notin retired

\* C10: auto_select_mode never returns a mode whose memory requirement exceeds
\* the free memory.
C10_ModeWithinFreeMemory ==
    (call.fn = "auto_select_mode" /\ ret # None) =>
        memory_required_gb(ret) <= call.free_memory

\* C10 as amended: auto_select_mode returns small or base only when the free
\* memory covers that mode's requirement; tiny is the floor, returned in every
\* other case, also when less than its 2 GB are free.
C10_SmallBaseWithinFreeMemory ==
    (call.fn = "auto_select_mode" /\ ret # None) =>
        /\ ret \in {"small", "base"} => memory_required_gb(ret) <= call.free_memory
        /\ call.free_memory < memory_required_gb("small") => ret = "tiny"

\* base was selected with exactly its 8 GB free
C10_Witness ==
    /\ call.fn = "auto_select_mode"
    /\ ret = "base"
    /\ call.free_memory = memory_required_gb("base")

\* C11: auto_select_mode returns base iff free memory >= 8 GB and complexity
\* < 2500; otherwise small iff free memory >= 4 GB and complexity < 900;
\* otherwise tiny. (550 tokens, 8 GB) gives base, (1200 tokens, 5 GB) gives tiny.
C11_AutoSelectTable ==
    (call.fn = "auto_select_mode" /\ pc = "returned") =>
        LET base_ok == call.free_memory >= 8 /\ call.document_complexity < 2500
            small_ok == call.free_memory >= 4 /\ call.document_complexity < 900
        IN /\ ret = "base" <=> base_ok
           /\ ret = "small" <=> (~base_ok /\ small_ok)
           /\ ret = "tiny" <=> (~base_ok /\ ~small_ok)
           /\ (call.document_complexity = 550 /\ call.free_memory = 8) => ret = "base"
           /\ (call.document_complexity = 1200 /\ call.free_memory = 5) => ret = "tiny"

\* 1200 tokens with 5 GB free fell to tiny
C11_Witness ==
    /\ call.fn = "auto_select_mode"
    /\ pc = "returned"
    /\ call.document_complexity = 1200
    /\ call.free_memory = 5
    /\ ret = "tiny"

\* C12: monitor_compression_ratio classifies its input as error if the
\* compressed count is 0; warning if estimated / compressed > 10.0, whatever the
\* mode; caution if the ratio exceeds the mode's safe ratio (tiny 9.4, small
\* 9.0, base 9.8) but not 10.0; ok otherwise.
C12_RatioClassification ==
    (call.fn = "monitor_compression_ratio" /\ pc = "returned") =>
        LET o == call.original_tokens
            c == call.compressed_tokens
            safe_x10 == CASE call.mode = "tiny" -> 94
                          [] call.mode = "small" -> 90
                          [] call.mode = "base" -> 98
        IN /\ ret.status = "error" <=> c = 0
           /\ ret.status = "warning" <=> (c # 0 /\ o > 10 * c)
           /\ ret.status = "caution" <=> (c # 0 /\ o <= 10 * c /\ 10 * o > safe_x10 * c)
           /\ ret.status = "ok" <=> (c # 0 /\ 10 * o <= safe_x10 * c)

\* 577 / 64 = 9.02 is a caution at small, whose safe ratio is 9.0
C12_Witness ==
    /\ call.fn = "monitor_compression_ratio"
    /\ pc = "returned"
    /\ call.original_tokens = 577
    /\ call.compressed_tokens = 64
    /\ call.mode = "small"
    /\ ret.status = "caution"

\* C13: a page with zero compressed tokens (classification error, ratio 0) does
\* not take the ratio-based redirect to the router: the redirect is never taken
\* by a page classified error.
C13_ZeroTokensNotRedirected ==
    ret_to = "unsafe" => ratio_info.status # "error"

\* C14: with an accelerator compress_with_fallback attempts the accelerator
\* first; an out-of-memory error of that attempt, which encode re-raises, makes
\* it clear the cache and retry once on the host; another exception of the
\* accelerator attempt propagates without a host retry.
C14_OnlyOomRetriesOnHost ==
    (call.fn = "compress_with_fallback" /\ pc = "returned" /\ call.cuda) =>
        /\ ret.attempts[1] = "gpu"
        /\ Len(ret.attempts) <= 2
        /\ encode("oom") = [kind |-> "raise", exc |-> "OutOfMemoryError"]
        /\ call.gpu_out = "tokens" =>
              (ret.kind = "return" /\ ret.attempts = <<"gpu">> /\ ~ret.cache_cleared)
        /\ call.gpu_out = "oom" =>
              (ret.cache_cleared /\ ret.attempts = <<"gpu", "cpu">>)
        /\ call.gpu_out = "error" =>
              /\ ret.kind = "raise"
              /\ ret.exc = "RuntimeError"
              /\ ret.attempts = <<"gpu">>
              /\ ~ret.cache_cleared

\* the accelerator attempt ran out of memory and the host retry returned tokens
C14_Witness ==
    /\ call.fn = "compress_with_fallback"
    /\ pc = "returned"
    /\ call.cuda
    /\ call.gpu_out = "oom"
    /\ ret.kind = "return"
    /\ ret.attempts = <<"gpu", "cpu">>

C16_CriticalBufferOnHost ==
    (call.fn = "encode_with_chunking" /\ pc = "returned" /\ ret.kind = "return") =>
        \A j \in 1..Len(ret.offloads) : ret.chunks[ret.offloads[j]].device = "cpu"

\* C17: _select_engine returns deepseek iff the memory probe passed, a service
\* handle was given and complexity < 1000; otherwise paddle iff PaddleOCR is
\* loaded and complexity < 2000; otherwise tesseract.
C17_EngineSelection ==
    (call.fn = "_select_engine" /\ pc = "returned") =>
        LET primary == deepseek_available /\ call.deepseek_service /\ call.doc_complexity < 1000
            secondary == paddle /\ call.doc_complexity < 2000
        IN /\ ret = "deepseek" <=> primary
           /\ ret = "paddle" <=> (~primary /\ secondary)
           /\ ret = "tesseract" <=> (~primary /\ ~secondary)

\* the primary engine was selected at complexity 999 and, without a handle,
\* was not
C17_Witness ==
    /\ call.fn = "_select_engine"
    /\ pc = "returned"
    /\ deepseek_available
    /\ call.doc_complexity = 999
    /\ call.deepseek_service
    /\ ret = "deepseek"

\* C18: every engine call of the router is guarded: a step in which an engine
\* is invoked never ends the call with that engine's exception; an engine of
\* the chain that fails hands over to the next step of the chain, and the
\* first engine that succeeds ends the call with its result, so no engine is
\* invoked after it.
C18_EnginesGuarded ==
    [][(pc \in RouterPcs /\ tried' # tried) =>
          /\ result'.exc \in {None, "AllOCRFailed"}
          /\ IF result'.status = "success"
             THEN /\ pc' = "idle"
                  /\ result'.engine = tried'[Len(tried')]
             ELSE /\ pc = "chain_deepseek" => pc' = "chain_paddle"
                  /\ pc = "chain_paddle" => pc' = "chain_tesseract"
                  /\ pc = "chain_tesseract" => (pc' = "idle" /\ result'.engine = "none")]_vars

\* an engine of the chain failed and a later one produced the result
C18_Witness ==
    /\ pc = "idle"
    /\ Len(tried) >= 2
    /\ result.status = "success"
    /\ result.engine = tried[Len(tried)]

\* C19: process_document with a service handle, the primary available and
\* complexity 300 selects the primary engine, and a primary that fails is not
\* the final result: the later engines are tried, an error result is the
\* aggregate one of the whole chain.
C19_PrimaryFailureReachesTertiary ==
    (/\ pc = "idle"
     /\ ret_to = "direct"
     /\ result.kind = "dict"
     /\ service_arg
     /\ deepseek_available
     /\ force_engine = None
     /\ estimate_document_complexity(req) = 300) =>
        /\ tried[1] = "deepseek"
        /\ result.engine = "deepseek" => result.status = "success"
        /\ result.status = "error" =>
              (result.engine = "none" /\ "tesseract" \in Range(tried))

\* C20: with several requests in flight against the same controller, at most
\* one handler is encoding or decoding a buffer against the model, and cleanup
\* never runs while a buffer is being encoded or decoded.
C20_AcceleratorWorkSerialized ==
    Cardinality({c \in Callers : h_pc[c] \in {"encode", "decode", "cleanup"}}) <= 1

\* a handler decodes a page while another one, suspended at file.read(), waits
\* for the loop
C20_Witness ==
    \E c1 \in Callers, c2 \in Callers :
        /\ c1 # c2
        /\ h_pc[c1] = "decode"
        /\ h_pc[c2] = "await_read"

\* C21: decode and decode_streaming applied to a format outside the table
\* {text, markdown, html, grounding} fail with an unsupported-format error and
\* produce no text.
C21_UnknownFormatFailsClosed ==
    (call.fn = "decode" /\ pc = "returned" /\ call.output_format \notin DOMAIN format_prompts)
        => (ret.kind = "raise" /\ ret.exc = "UnsupportedFormatError")

\* C22: decode_streaming clears the accelerator cache once after every 100th
\* yielded unit, when the consumer comes back for the next one: a generator
\* consumed to the end of its n units has cleared exactly n \div 100 times, a
\* clear happens only on resumption from a yield whose count is a positive
\* multiple of 100, and closing the generator early, or anything after the
\* generator has ended, clears nothing.
C22_ClearEveryHundredUnits ==
    [][/\ (dgen'.state = "done" /\ dgen'.cuda)
            => (dgen'.yielded = dgen'.n /\ dgen'.clears = dgen'.n \div CacheClearEvery)
       /\ (dgen'.state = "suspended" /\ dgen'.cuda)
            => dgen'.clears = (dgen'.yielded - 1) \div CacheClearEvery
       /\ (dgen'.state = "suspended" /\ dgen.state = "suspended")
            => dgen'.yielded = dgen.yielded + 1
       /\ (dgen'.state \in {"closed", "raised"} \/ dgen.state \in {"closed", "done", "raised"})
            => (dgen'.state = "created" \/ dgen'.clears = dgen.clears)
       /\ (dgen'.state # "created" /\ dgen'.clears # dgen.clears)
            => /\ dgen'.clears = dgen.clears + 1
               /\ dgen.state = "suspended"
               /\ dgen.yielded > 0
               /\ dgen.yielded % CacheClearEvery = 0]_vars

\* a generator of 200 or more units was consumed to the end and cleared twice
C22_Witness ==
    /\ dgen.state = "done"
    /\ dgen.cuda
    /\ dgen.n >= 2 * CacheClearEvery
    /\ dgen.clears = 2

\* C23: "with MemoryGuard():" clears the accelerator cache and records the
\* allocated memory on entry and clears the cache again on exit, both when
\* the body returns and when it raises, and the body's exception always
\* propagates; nested guards each clear on entry and on exit, innermost exit
\* first.
C23_GuardAlwaysClears ==
    (call.fn = "MemoryGuard" /\ pc = "returned") =>
        /\ ret.exc = (IF call.body.raises THEN "RuntimeError" ELSE None)
        /\ call.cuda =>
            /\ ret.events = [i \in 1..(2 * call.depth + 1) |->
                                IF i <= call.depth THEN "enter_clear"
                                ELSE IF i = call.depth + 1 THEN "body"
                                ELSE "exit_clear"]
            /\ ret.baselines = [i \in 1..call.depth |-> call.cache.allocated]
            /\ ret.cache = [allocated |-> call.cache.allocated,
                            reserved |-> call.cache.reserved - call.cache.releasable,
                            releasable |-> 0]

\* the body of two nested guards raised with blocks left in the cache: both
\* guards cleared on exit and the exception came out
C23_Witness ==
    /\ call.fn = "MemoryGuard"
    /\ pc = "returned"
    /\ call.cuda
    /\ call.depth = 2
    /\ call.body.raises
    /\ call.body.cached > 0
    /\ ret.exc = "RuntimeError"
    /\ ret.cache.releasable = 0

\* C24: check_and_clear clears the cache exactly when allocated / reserved * 100
\* exceeds the threshold and returns True exactly when it cleared: it returns
\* False and clears nothing without an accelerator or with reserved = 0; a
\* second call leaves the cache as the first one left it and returns the same.
C24_CheckAndClear ==
    (call.fn = "check_and_clear" /\ pc = "returned") =>
        LET over == /\ call.cuda
                    /\ call.cache.reserved > 0
                    /\ 100 * call.cache.allocated > call.threshold * call.cache.reserved
        IN /\ ret.once.cleared = over
           /\ ret.once.returned = ret.once.cleared
           /\ ret.once.cache = IF over THEN empty_cache(call.cache) ELSE call.cache
           /\ ret.twice.cache = ret.once.cache
           /\ ret.twice.returned = ret.once.returned

\* a usage of exactly the threshold was left alone, and one above it cleared
\* blocks
C24_Witness ==
    /\ call.fn = "check_and_clear"
    /\ pc = "returned"
    /\ call.cuda
    /\ \/ /\ 100 * call.cache.allocated = call.threshold * call.cache.reserved
          /\ call.cache.reserved > 0
          /\ call.cache.releasable > 0
          /\ ~ret.once.returned
       \/ /\ ret.once.returned
          /\ ret.once.cache # call.cache
          /\ call.threshold = 90

\* C25: process_file on a path that does not exist raises FileNotFoundError
\* in every lifecycle state: the call ends at once, no renderer, encoder,
\* compressor, decoder or fallback engine is invoked, the router is not
\* called, and the controller, the router's flags and the lifecycle state are
\* as they were.
C25_MissingFileRaisesFirst ==
    [][(pc = "idle" /\ req' = NoFile) =>
        \A m \in Modes \cup {None}, s \in BOOLEAN :
          process_file(NoFile, m, s) =>
              /\ result'.kind = "raise"
              /\ result'.exc = "FileNotFoundError"
              /\ pc' = "idle"
              /\ primary_invoked' = {}
              /\ tried' = <<>>
              /\ ret_to' = None
              /\ UNCHANGED <<glob, ctrl, fbv, lifecycle, retired, cleanups>>]_vars

\* a degraded controller was given a missing file and raised
C25_Witness ==
    /\ lifecycle = "degraded"
    /\ pc = "idle"
    /\ req = NoFile
    /\ result.kind = "raise"
    /\ result.exc = "FileNotFoundError"

\* C26: a page that fails to render ends the request with the renderer's
\* error: the router and its engines are not tried for it.
C26_RenderFailureIsFatal ==
    primary_exc = "RenderError" =>
        /\ pc \notin RouterPcs
        /\ pc = "idle" => (result.kind = "raise" /\ result.exc = "RenderError")

\* C30: when the accelerator runs out of memory on a page processed in state
\* ready at a mode above tiny, and the host retry at the same mode fails too,
\* the encoder is tried at a smaller mode before the router's fallback
\* engines are.
C30_DowngradeBeforeRouter ==
    (/\ call.fn = "process_page"
     /\ pc = "returned"
     /\ call.cuda
     /\ call.gpu_out = "oom"
     /\ call.cpu_out # "tokens"
     /\ call.mode # "tiny"
     /\ ret.outcome = "router") =>
        \E i \in 1..Len(ret.steps) :
            /\ ret.steps[i].step \in {"gpu", "cpu"}
            /\ ret.steps[i].mode # call.mode
            /\ \A j \in 1..Len(ret.steps) : ret.steps[j].step = "router" => i < j

\* C27: render_pdf_streaming consumed to the end has yielded the page indices
\* 0, 1, ..., k - 1 in increasing order, where k is min(total pages, max_pages)
\* when max_pages is given and the total number of pages when it is omitted.
C27_PagesUpToMax ==
    rgen.state = "done" =>
        LET k == IF rgen.max_pages.given
                 THEN IF rgen.total_pages <= rgen.max_pages.value
                      THEN rgen.total_pages ELSE rgen.max_pages.value
                 ELSE rgen.total_pages
        IN rgen.yielded = [i \in 1..k |-> i - 1]

\* C28: _resize_to_target with a target of at most 640 px returns an image that
\* fits within the target and is no larger than the input on either side (an
\* input of exactly the target size keeps its size); with a target above
\* 640 px it returns an image of exactly the target's width and height for
\* every input width and height.
C28_ResizeDimensions ==
    (call.fn = "_resize_to_target" /\ pc = "returned") =>
        /\ ret.kind = "return"
        /\ call.target.w <= ResizeDirectMax =>
            /\ ret.size.w <= call.target.w /\ ret.size.h <= call.target.h
            /\ ret.size.w <= call.original.w /\ ret.size.h <= call.original.h
            /\ call.original = call.target => ret.size = call.original
        /\ call.target.w > ResizeDirectMax => ret.size = call.target

\* C29: benchmark_performance called on a controller that is not ready returns
\* an error result and probes no mode; called on a ready controller it
\* returns one result for each of 512 -> tiny, 640 -> small, 1024 -> base, and
\* a mode whose probe failed has works = False while the others are still
\* probed.
C29_BenchmarkPerMode ==
    [][\A outs \in [Modes -> BOOLEAN] :
          benchmark_performance(outs) =>
              IF lifecycle = "ready"
              THEN /\ result'.error = None
                   /\ result'.probed = <<"tiny", "small", "base">>
                   /\ DOMAIN result'.results = Modes
                   /\ \A m \in Modes : result'.results[m].works = outs[m]
                   /\ result'.results["tiny"].resolution = 512
                   /\ result'.results["small"].resolution = 640
                   /\ result'.results["base"].resolution = 1024
              ELSE /\ result'.error # None
                   /\ result'.probed = <<>>]_vars

\* C31: get_model_info returns {status: not_loaded} exactly when no
\* load_model call has succeeded since the loader was built or last unloaded:
\* before load_model, after a failed load_model and after unload_model.
C31_InfoNotLoaded ==
    ldr.last.op = "get_model_info" =>
        (ldr.last.status = "not_loaded" <=> ldr.last_load # "ok")

\* C32: POST /ocr/process answers 503 exactly when there is no service handle
\* when the request starts; with a handle, an output format outside {text,
\* markdown, html} or a mode outside {tiny, small, base, auto} is answered 400
\* and process_file is not called; otherwise an answer of 200 carries the text
\* process_file returned, its length and status success, and a process_file
\* that raised is answered 500.
C32_RequestAnswers ==
    (call.fn = "POST /ocr/process" /\ pc = "returned") =>
        LET bad == \/ call.output_format \notin {"text", "markdown", "html"}
                   \/ call.mode \notin {None, "tiny", "small", "base", "auto"}
        IN /\ ret.status_code = 503 <=> ~call.handle_at_start
           /\ ~call.handle_at_start => ~ret.called
           /\ (call.handle_at_start /\ bad) => (ret.status_code = 400 /\ ~ret.called)
           /\ (call.handle_at_start /\ ~bad) => ret.status_code \in {200, 500}
           /\ ret.called =>
                /\ ret.mode = (IF call.mode = "auto" THEN None ELSE call.mode)
                /\ IF call.outcome.kind = "text"
                   THEN /\ ret.status_code = 200
                        /\ ret.body = [status |-> "success", text |-> call.outcome.text,
                                       length |-> Len(call.outcome.text)]
                   ELSE ret.status_code = 500
           /\ ret.status_code = 200 => (ret.called /\ call.outcome.kind = "text")

\* a request with a handle, format markdown and mode auto got its text back
C32_Witness ==
    /\ call.fn = "POST /ocr/process"
    /\ pc = "returned"
    /\ call.output_format = "markdown"
    /\ call.mode = "auto"
    /\ ret.status_code = 200
    /\ ret.body.length = 2

\* C33: in the host retry that follows an accelerator out-of-memory error the
\* model is invoked on the host with an input tensor that is on the host too.
C33_HostRetryOnHost ==
    (call.fn = "compress_with_fallback_on" /\ pc = "returned" /\ ret.host_retry) =>
        /\ Len(ret.invocations) = 2
        /\ ret.invocations[2].model_device = "cpu"
        /\ ret.invocations[2].tensor_device = "cpu"

\* C34: for the same tokens and output format, the units of decode_streaming
\* joined are the text the non-streaming decode returns.
C34_StreamEqualsBatch ==
    (call.fn = "decode_text" /\ pc = "returned") => ret.streamed = ret.batch

\* C36: a process_file call ends. Every step of it lowers a natural-number
\* variant; the router is entered at most once and never left for the primary
\* pipeline again, so there is at most one primary attempt; no engine is
\* invoked twice; and the router, called by the controller without a service
\* handle, invokes at most one engine and never the primary one.
C36_ProcessFileTerminates ==
    [][LET CallPcs == RouterPcs \cup {"render", "compress", "decode"}
           Variant(p, pages_left) ==
               CASE p \in {"render", "compress", "decode"} ->
                       6 + 3 * pages_left
                         + (CASE p = "render" -> 1 [] p = "compress" -> 0 [] OTHER -> -1)
                 [] p = "router" -> 5
                 [] p = "chain_deepseek" -> 4
                 [] p = "chain_paddle" -> 3
                 [] p = "chain_tesseract" -> 2
                 [] p = "direct" -> 1
                 [] OTHER -> 0
           NoEngineTwice(t, site, svc) ==
               /\ \A i, j \in 1..Len(t) : t[i] = t[j] => i = j
               /\ site \in {"unsafe", "fallback"} =>
                      (~svc /\ Len(t) <= 1 /\ \A i \in 1..Len(t) : t[i] # "deepseek")
       IN /\ NoEngineTwice(tried', ret_to', service_arg')
          /\ pc \in CallPcs =>
                /\ Variant(pc', req'.pages - page_num') < Variant(pc, req.pages - page_num)
                /\ Variant(pc', req'.pages - page_num') >= 0
          /\ (pc \notin RouterPcs /\ pc' = "router") =>
                (engine' = None /\ tried' = <<>>)
          /\ pc \in RouterPcs => pc' \in RouterPcs \cup {"idle"}]_vars

\* a primary attempt raised, the router ran once with one engine, and the call
\* has ended
C36_Witness ==
    /\ pc = "idle"
    /\ ret_to = "fallback"
    /\ primary_exc # None
    /\ "renderer" \in primary_invoked
    /\ Len(tried) = 1
    /\ result.source = "router"

\* C35: compress_with_fallback ends with the encoder's model on the device it
\* was on before the call, whether no host retry was made, the host retry
\* returned tokens or the host retry raised.
C35_ModelBackOnDevice ==
    (call.fn = "compress_with_fallback_on" /\ pc = "returned") =>
        ret.model_device = call.original_device

\* the model was on the accelerator, the host retry raised, and the model is
\* on the accelerator again
C35_Witness ==
    /\ call.fn = "compress_with_fallback_on"
    /\ pc = "returned"
    /\ call.original_device = "cuda"
    /\ ret.host_retry
    /\ ret.kind = "raise"
    /\ ret.invocations[2].model_device = "cpu"
    /\ ret.model_device = "cuda"

\* C37: process_document invokes only engines that get_available_engines()
\* lists, with and without force_engine: Tesseract only when enable_tesseract,
\* the primary engine only when the memory probe passed.
C37_OnlyAvailableEngines ==
    \A e \in Range(tried) : e \in get_available_engines

\* C38: in the dict monitor_compression_ratio returns, 'safe' is True exactly
\* when 'status' is ok or caution and False exactly when it is warning or
\* error.
C38_SafeMatchesStatus ==
    (call.fn = "monitor_compression_ratio" /\ pc = "returned") =>
        /\ ret.status \in {"ok", "caution", "warning", "error"}
        /\ ret.safe <=> ret.status \in {"ok", "caution"}
        /\ ~ret.safe <=> ret.status \in {"warning", "error"}

\* a ratio between the mode's safe ratio and 10.0: caution, and safe
C38_Witness ==
    /\ call.fn = "monitor_compression_ratio"
    /\ pc = "returned"
    /\ ret.status = "caution"
    /\ ret.safe

\* C39: auto_select_mode returns base or small only for a complexity strictly
\* below that mode's max_text_tokens; a mode returned for a complexity at or
\* above its own max_text_tokens is tiny; and every complexity of 2500 or more
\* gets tiny, whatever the free memory.
C39_ModeBelowCeiling ==
    (call.fn = "auto_select_mode" /\ pc = "returned") =>
        /\ ret \in {"base", "small"} => call.document_complexity < max_text_tokens(ret)
        /\ call.document_complexity >= max_text_tokens(ret) => ret = "tiny"
        /\ call.document_complexity >= max_text_tokens("base") => ret = "tiny"

\* memory enough for base, a complexity of 2500 or more: tiny
C39_Witness ==
    /\ call.fn = "auto_select_mode"
    /\ pc = "returned"
    /\ call.free_memory >= memory_required_gb("base")
    /\ call.document_complexity >= max_text_tokens("base")
    /\ ret = "tiny"

\* C40: once render_pdf_streaming has ended (its last page was yielded and
\* the sequence is exhausted, rendering a page raised, or the consumer closed
\* it early), the PDF document it opened is closed.
C40_DocumentClosedOnExit ==
    rgen.state \in {"done", "raised", "closed"} => ~rgen.doc_open

====
